---- MODULE Spec2Model ----
(***************************************************************************)
(* User management service: soft-delete CRUD over a document store with a  *)
(* read-through cache (app/services/user_service.py), the store adapter    *)
(* (app/services/mongodb_service.py), the cache adapter                    *)
(* (app/services/redis_cache_service.py) and the User model               *)
(* (app/models/user.py).                                                   *)
(***************************************************************************)
EXTENDS Integers, Sequences, FiniteSets, TLC

VARIABLES store, cache, cacheUp, now, last, calls, jobs, procs

vars == <<store, cache, cacheUp, now, last, calls, jobs, procs>>

----------------------------------------------------------------------------
(* Bounds of the model *)

\* largest number of documents the collection is allowed to grow to
MaxUsers == 2
\* largest reading of the clock
MaxClock == 1
\* largest number of service calls in one behaviour
MaxCalls == 4
\* clock readings per whole second (a reading that is a multiple of it has
\* no fractional part in its ISO-8601 text)
SecUnit == 2

----------------------------------------------------------------------------
(* Values *)

\* hexadecimal strings handed out, in this order, by ObjectId()
IdPool == <<"u1", "u2", "u3", "u4">>

\* id strings a request can carry: the ids the collection can hand out and
\* one string that is not a valid ObjectId
RequestIds == {IdPool[i] : i \in 1..MaxUsers} \cup {"all:active"}

Usernames == {"alice", "bob"}

EmailA == <<"a", "@", "x", ".", "i", "o">>
EmailB == <<"b", "@", "x", ".", "i", "o">>
Emails == {EmailA, EmailB}

None == [kind |-> "none"]

Min(S) == CHOOSE x \in S : \A y \in S : x <= y

----------------------------------------------------------------------------
(* bson.ObjectId and Python values as used by the services *)

IsValidObjectId(s) == \E i \in 1..Len(IdPool) : IdPool[i] = s

\* ObjectId(hex string); raises InvalidId (guarded by IsValidObjectId)
ObjectId(s) == [oid |-> s]

\* a Python str standing in a document where an ObjectId can also stand
PyStr(s) == [str |-> s]

isObjectId(v) == DOMAIN v = {"oid"}

\* str(value) of an ObjectId or of a str
str(v) == IF isObjectId(v) THEN PyStr(v.oid) ELSE v

\* a datetime value read off the clock, and the text of one
datetime(t) == [dt |-> t]

isdatetime(v) == DOMAIN v = {"dt"}

----------------------------------------------------------------------------
(* app/models/user.py *)

\* variant: the text keeps whole seconds only
isoformat_seconds(d) == [iso |-> <<d.dt \div SecUnit>>]

isoformat(d) ==
    IF d.dt % SecUnit = 0 THEN [iso |-> <<d.dt \div SecUnit>>]
                          ELSE [iso |-> <<d.dt \div SecUnit, d.dt % SecUnit>>]

fromisoformat(s) ==
    IF Len(s.iso) = 1 THEN datetime(s.iso[1] * SecUnit)
                      ELSE datetime(s.iso[1] * SecUnit + s.iso[2])

_parse_datetime(value) ==
    IF isdatetime(value) THEN value ELSE fromisoformat(value)

\* User(**user_data): the two timestamps come from two clock readings
User(user_data, t1, t2) ==
    [_id        |-> None,
     username   |-> user_data.vals.username,
     email      |-> user_data.vals.email,
     created_at |-> datetime(t1),
     updated_at |-> datetime(t2),
     isDeleted  |-> IF "isDeleted" \in user_data.keys
                    THEN user_data.vals.isDeleted ELSE FALSE]

to_dict(user, fresh) ==
    [_id        |-> IF user._id # None THEN ObjectId(user._id.str) ELSE fresh,
     username   |-> user.username,
     email      |-> user.email,
     created_at |-> user.created_at,
     updated_at |-> user.updated_at,
     isDeleted  |-> user.isDeleted]

from_dict(data) ==
    [_id        |-> str(data._id),
     username   |-> data.username,
     email      |-> data.email,
     created_at |-> _parse_datetime(data.created_at),
     updated_at |-> _parse_datetime(data.updated_at),
     isDeleted  |-> data.isDeleted]

----------------------------------------------------------------------------
(* app/utils/general_utils.py *)

Letters == {"a", "b", "i", "o", "x"}

\* [a-zA-Z0-9._%+-]
LocalChars == Letters \cup {".", "_", "%", "+", "-"}

\* [a-zA-Z0-9.-]
DomainChars == Letters \cup {".", "-"}

\* re.match(r'^[a-zA-Z0-9._%+-]+@[a-zA-Z0-9.-]+\.[a-zA-Z]{2,}$', email)
validate_email(email) ==
    \E i \in 1..Len(email), j \in 1..Len(email) :
        /\ i > 1
        /\ email[i] = "@"
        /\ \A k \in 1..(i - 1) : email[k] \in LocalChars
        /\ j > i + 1
        /\ email[j] = "."
        /\ \A k \in (i + 1)..(j - 1) : email[k] \in DomainChars
        /\ Len(email) - j >= 2
        /\ \A k \in (j + 1)..Len(email) : email[k] \in Letters

----------------------------------------------------------------------------
(* app/services/mongodb_service.py: the collection is the sequence of its   *)
(* documents in insertion order                                             *)

\* a query or a $set document: the fields named in keys with their values
Dict(keys, vals) == [keys |-> keys, vals |-> vals]

\* the document has every field of the query with the value the query gives
\* ("_id_ne" stands for "_id": {"$ne": value})
Matches(doc, query) ==
    \A k \in query.keys :
        IF k = "_id_ne" THEN doc._id # query.vals._id_ne
                        ELSE doc[k] = query.vals[k]

\* first document matching the query, or None
find_one(st, query) ==
    LET hits == {i \in 1..Len(st) : Matches(st[i], query)}
    IN  IF hits = {} THEN None ELSE st[Min(hits)]

find(st, query) == SelectSeq(st, LAMBDA doc : Matches(doc, query))

\* stamps both timestamps with one clock reading t, then inserts
insert_one(st, document, t) ==
    LET doc == [document EXCEPT !.created_at = datetime(t),
                                !.updated_at = datetime(t)]
    IN  [store |-> Append(st, doc), inserted_id |-> str(doc._id)]

\* {"$set": update}: the fields named in update.keys take the values of update.vals
ApplySet(doc, update) ==
    [f \in DOMAIN doc |-> IF f \in update.keys THEN update.vals[f] ELSE doc[f]]

\* stamps updated_at with the clock reading t into $set, then updates the
\* first matching document; modified_count counts a document that changed
update_one(st, filter, update, t) ==
    LET stamped == [keys |-> update.keys \cup {"updated_at"},
                    vals |-> [update.vals EXCEPT !.updated_at = datetime(t)]]
        hits == {i \in 1..Len(st) : Matches(st[i], filter)}
    IN  IF hits = {}
        THEN [store |-> st, modified_count |-> 0]
        ELSE LET i == Min(hits)
                 doc == ApplySet(st[i], stamped)
             IN  [store |-> [st EXCEPT ![i] = doc],
                  modified_count |-> IF doc = st[i] THEN 0 ELSE 1]

----------------------------------------------------------------------------
(* app/services/redis_cache_service.py: a cache service ca is              *)
(* [up |-> whether _redis_client was initialized,                           *)
(*  data |-> the JSON value stored under each key, or None]                 *)

\* json.dumps with default_serializer: a datetime becomes its ISO text, an
\* ObjectId is not serializable
Serializable(d) == ~isObjectId(d._id)

_serialize_dict(d) ==
    [d EXCEPT !.created_at = IF isdatetime(@) THEN isoformat(@) ELSE @,
              !.updated_at = IF isdatetime(@) THEN isoformat(@) ELSE @]

_serialize(value) ==
    IF value.kind = "dict"
    THEN [kind |-> "dict", val |-> _serialize_dict(value.val)]
    ELSE [kind |-> "list",
          val |-> [i \in 1..Len(value.val) |-> _serialize_dict(value.val[i])]]

CanSerialize(value) ==
    IF value.kind = "dict"
    THEN Serializable(value.val)
    ELSE \A i \in 1..Len(value.val) : Serializable(value.val[i])

_is_client_initialized(ca) == ca.up

\* the value under the key, None when absent or when the client is missing
cache_get(ca, key) == IF ~_is_client_initialized(ca) THEN None ELSE ca.data[key]

\* the service after set(key, value, expire): unchanged when set returns False
cache_set(ca, key, value) ==
    IF ~_is_client_initialized(ca) THEN ca
    ELSE IF ~CanSerialize(value) THEN ca
    ELSE [ca EXCEPT !.data[key] = _serialize(value)]

\* variant: delete leaves the entry in place
cache_delete_kept(ca, key) == ca

cache_delete(ca, key) ==
    IF ~_is_client_initialized(ca) THEN ca ELSE [ca EXCEPT !.data[key] = None]

\* tails a key can have after the prefix of a pattern "prefix*"
KeyTails == {"", "active", "with_deleted"}

\* glob match of a key against the pattern prefix \o "*"
GlobMatch(key, prefix) == \E tail \in KeyTails : key = prefix \o tail

\* scan for the keys matching the pattern and delete them
delete_pattern(ca, prefix) ==
    IF ~_is_client_initialized(ca) THEN ca
    ELSE [ca EXCEPT !.data = [k \in DOMAIN ca.data |->
                                IF GlobMatch(k, prefix) THEN None ELSE ca.data[k]]]

\* Python truth value of a value read from the cache
Truthy(v) == v.kind = "dict" \/ (v.kind = "list" /\ Len(v.val) > 0)

----------------------------------------------------------------------------
(* app/services/user_service.py *)

CACHE_PREFIX == "user:"

_get_user_cache_key(user_id) == CACHE_PREFIX \o user_id

\* variant: one key for both values of the flag
_get_all_users_cache_key_unflagged(include_deleted) ==
    CACHE_PREFIX \o "all:" \o "active"

_get_all_users_cache_key(include_deleted) ==
    CACHE_PREFIX \o "all:" \o (IF include_deleted THEN "with_deleted" ELSE "active")

CacheKeys ==
    {_get_user_cache_key(id) : id \in RequestIds}
        \cup {_get_all_users_cache_key(b) : b \in BOOLEAN}

\* variant: only the list entries are invalidated
_invalidate_user_cache_lists_only(ca, user_id) ==
    delete_pattern(ca, CACHE_PREFIX \o "all:")

_invalidate_user_cache(ca, user_id) ==
    delete_pattern(cache_delete(ca, _get_user_cache_key(user_id)),
                   CACHE_PREFIX \o "all:")

\* the JSON number 123 where a str is expected, as a username and as an email
NumberName == "#123"

NumberEmail == <<"#123">>

\* the message of the APIError raised, "" when the data is accepted, or
\* "TypeError" when re.match raises it on an email that is no str
validate_user_data(data, is_update) ==
    IF ~is_update /\ ~({"username", "email"} \subseteq data.keys)
    THEN "Missing required fields: username and email"
    ELSE IF "email" \in data.keys /\ data.vals.email = NumberEmail
    THEN "TypeError"
    ELSE IF "email" \in data.keys /\ ~validate_email(data.vals.email)
    THEN "Invalid email format"
    ELSE IF "username" \in data.keys
            /\ (data.vals.username = NumberName \/ Len(data.vals.username) < 3)
    THEN "Username must be a string with at least 3 characters"
    ELSE ""

\* outcome of a service call: the value returned or the APIError raised,
\* with the store, the cache and the clock as the call leaves them
Returned(st, ca, t, user, users, source) ==
    [ok |-> TRUE, status_code |-> 0, message |-> "", user |-> user,
     users |-> users, source |-> source, store |-> st, cache |-> ca, now |-> t]

Raised(st, ca, t, status_code, message) ==
    [ok |-> FALSE, status_code |-> status_code, message |-> message,
     user |-> None, users |-> <<>>, source |-> "", store |-> st, cache |-> ca,
     now |-> t]

\* variant: a cached deleted record does not answer a default lookup
get_user_by_id_flag_aware(st, ca, t, user_id, include_deleted) ==
    LET cache_key == _get_user_cache_key(user_id)
        cached_user == cache_get(ca, cache_key)
    IN  IF /\ Truthy(cached_user)
           /\ (cached_user.kind = "dict"
                 => (include_deleted \/ ~cached_user.val.isDeleted))
        THEN IF cached_user.kind = "dict"
             THEN Returned(st, ca, t, from_dict(cached_user.val), <<>>, "cache")
             ELSE Raised(st, ca, t, 500, "Error fetching user")
        ELSE IF ~IsValidObjectId(user_id)
        THEN Raised(st, ca, t, 400, "Invalid user ID format")
        ELSE LET query == IF include_deleted
                          THEN Dict({"_id"}, [_id |-> ObjectId(user_id)])
                          ELSE Dict({"_id", "isDeleted"},
                                    [_id |-> ObjectId(user_id),
                                     isDeleted |-> FALSE])
                 user == find_one(st, query)
             IN  IF user = None
                 THEN Raised(st, ca, t, 404, "User not found")
                 ELSE LET user_dict == [user EXCEPT !._id = str(@)]
                          ca2 == cache_set(ca, cache_key,
                                           [kind |-> "dict", val |-> user_dict])
                      IN  Returned(st, ca2, t, from_dict(user), <<>>, "store")

\* variant: a set that returns False is reported to the caller
get_user_by_id_strict(st, ca, t, user_id, include_deleted) ==
    LET cache_key == _get_user_cache_key(user_id)
        cached_user == cache_get(ca, cache_key)
    IN  IF Truthy(cached_user)
        THEN IF cached_user.kind = "dict"
             THEN Returned(st, ca, t, from_dict(cached_user.val), <<>>, "cache")
             ELSE Raised(st, ca, t, 500, "Error fetching user")
        ELSE IF ~IsValidObjectId(user_id)
        THEN Raised(st, ca, t, 400, "Invalid user ID format")
        ELSE LET query == IF include_deleted
                          THEN Dict({"_id"}, [_id |-> ObjectId(user_id)])
                          ELSE Dict({"_id", "isDeleted"},
                                    [_id |-> ObjectId(user_id),
                                     isDeleted |-> FALSE])
                 user == find_one(st, query)
             IN  IF user = None
                 THEN Raised(st, ca, t, 404, "User not found")
                 ELSE LET user_dict == [user EXCEPT !._id = str(@)]
                          ca2 == cache_set(ca, cache_key,
                                           [kind |-> "dict", val |-> user_dict])
                      IN  IF cache_get(ca2, cache_key) = None
                          THEN Raised(st, ca, t, 500, "Error fetching user")
                          ELSE Returned(st, ca2, t, from_dict(user), <<>>,
                                        "store")

\* variant: the store is asked first, the cache only for what it lacks
get_user_by_id_store_first(st, ca, t, user_id, include_deleted) ==
    LET cache_key == _get_user_cache_key(user_id)
        cached_user == cache_get(ca, cache_key)
        query == IF include_deleted
                 THEN Dict({"_id"}, [_id |-> ObjectId(user_id)])
                 ELSE Dict({"_id", "isDeleted"},
                           [_id |-> ObjectId(user_id), isDeleted |-> FALSE])
        user == IF IsValidObjectId(user_id) THEN find_one(st, query) ELSE None
    IN  IF user # None
        THEN Returned(st, cache_set(ca, cache_key,
                                    [kind |-> "dict",
                                     val |-> [user EXCEPT !._id = str(@)]]),
                      t, from_dict(user), <<>>, "store")
        ELSE IF Truthy(cached_user) /\ cached_user.kind = "dict"
        THEN Returned(st, ca, t, from_dict(cached_user.val), <<>>, "cache")
        ELSE IF ~IsValidObjectId(user_id)
        THEN Raised(st, ca, t, 400, "Invalid user ID format")
        ELSE Raised(st, ca, t, 404, "User not found")

get_user_by_id(st, ca, t, user_id, include_deleted) ==
    LET cache_key == _get_user_cache_key(user_id)
        cached_user == cache_get(ca, cache_key)
    IN  IF Truthy(cached_user)
        THEN IF cached_user.kind = "dict"
             THEN Returned(st, ca, t, from_dict(cached_user.val), <<>>, "cache")
             ELSE Raised(st, ca, t, 500, "Error fetching user")
        ELSE IF ~IsValidObjectId(user_id)
        THEN Raised(st, ca, t, 400, "Invalid user ID format")
        ELSE LET query == IF include_deleted
                          THEN Dict({"_id"}, [_id |-> ObjectId(user_id)])
                          ELSE Dict({"_id", "isDeleted"},
                                    [_id |-> ObjectId(user_id),
                                     isDeleted |-> FALSE])
                 user == find_one(st, query)
             IN  IF user = None
                 THEN Raised(st, ca, t, 404, "User not found")
                 ELSE LET user_dict == [user EXCEPT !._id = str(@)]
                          ca2 == cache_set(ca, cache_key,
                                           [kind |-> "dict", val |-> user_dict])
                      IN  Returned(st, ca2, t, from_dict(user), <<>>, "store")

\* variant: no lookup of the email before the insert
create_user_unchecked(st, ca, t, user_data, t1, t2, t3) ==
    LET invalid == validate_user_data(user_data, FALSE)
    IN  IF invalid = "TypeError"
        THEN Raised(st, ca, t, 500, "Error creating user")
        ELSE IF invalid # ""
        THEN Raised(st, ca, t, 400, invalid)
        ELSE LET user == User(user_data, t1, t2)
                 user_dict == to_dict(user, ObjectId(IdPool[Len(st) + 1]))
                 ins == insert_one(st, user_dict, t3)
                 ca2 == delete_pattern(ca, CACHE_PREFIX \o "all:")
             IN  Returned(ins.store, ca2, t3,
                          [user EXCEPT !._id = ins.inserted_id], <<>>, "")

create_user(st, ca, t, user_data, t1, t2, t3) ==
    LET invalid == validate_user_data(user_data, FALSE)
    IN  IF invalid = "TypeError"
        THEN Raised(st, ca, t, 500, "Error creating user")
        ELSE IF invalid # ""
        THEN Raised(st, ca, t, 400, invalid)
        ELSE IF find_one(st, Dict({"email", "isDeleted"},
                                  [email |-> user_data.vals.email,
                                   isDeleted |-> FALSE])) # None
        THEN Raised(st, ca, t, 400, "Email already exists")
        ELSE LET user == User(user_data, t1, t2)
                 user_dict == to_dict(user, ObjectId(IdPool[Len(st) + 1]))
                 ins == insert_one(st, user_dict, t3)
                 ca2 == delete_pattern(ca, CACHE_PREFIX \o "all:")
             IN  Returned(ins.store, ca2, t3,
                          [user EXCEPT !._id = ins.inserted_id], <<>>, "")

get_all_users(st, ca, t, include_deleted) ==
    LET cache_key == _get_all_users_cache_key(include_deleted)
        cached_users == cache_get(ca, cache_key)
    IN  IF Truthy(cached_users)
        THEN IF cached_users.kind = "list"
             THEN Returned(st, ca, t, None,
                           [i \in 1..Len(cached_users.val) |->
                               from_dict(cached_users.val[i])], "cache")
             ELSE Raised(st, ca, t, 500, "Error fetching users")
        ELSE LET query == IF include_deleted
                          THEN Dict({}, [isDeleted |-> FALSE])
                          ELSE Dict({"isDeleted"}, [isDeleted |-> FALSE])
                 users == find(st, query)
                 users_for_cache == [i \in 1..Len(users) |->
                                        [users[i] EXCEPT !._id = str(@)]]
                 ca2 == cache_set(ca, cache_key,
                                  [kind |-> "list", val |-> users_for_cache])
             IN  Returned(st, ca2, t, None,
                          [i \in 1..Len(users) |-> from_dict(users[i])], "store")

\* variant: no cache invalidation after the store write
update_user_no_invalidate(st, ca, t, user_id, user_data, t1, t2) ==
    LET invalid == validate_user_data(user_data, TRUE)
        current == get_user_by_id(st, ca, t, user_id, FALSE)
    IN  IF invalid = "TypeError"
        THEN Raised(st, ca, t, 500, "Error updating user")
        ELSE IF invalid # ""
        THEN Raised(st, ca, t, 400, invalid)
        ELSE IF ~current.ok
        THEN current
        ELSE IF /\ "email" \in user_data.keys
                /\ user_data.vals.email # current.user.email
                /\ find_one(st, Dict({"email", "_id_ne", "isDeleted"},
                                      [email |-> user_data.vals.email,
                                       _id_ne |-> ObjectId(user_id),
                                       isDeleted |-> FALSE])) # None
        THEN Raised(st, current.cache, t, 400, "Email already exists")
        ELSE LET update == [keys |-> user_data.keys \cup {"updated_at"},
                         vals |-> [user_data.vals EXCEPT
                                      !.updated_at = datetime(t1)]]
                 result == update_one(st, Dict({"_id", "isDeleted"},
                                                [_id |-> ObjectId(user_id),
                                                 isDeleted |-> FALSE]),
                                      update, t2)
             IN  IF result.modified_count = 0
                 THEN Raised(st, current.cache, t2, 400, "Failed to update user")
                 ELSE get_user_by_id(result.store, current.cache, t2, user_id,
                                     FALSE)

\* variant: the cache is invalidated before modified_count is looked at
update_user_invalidate_first(st, ca, t, user_id, user_data, t1, t2) ==
    LET invalid == validate_user_data(user_data, TRUE)
        current == get_user_by_id(st, ca, t, user_id, FALSE)
    IN  IF invalid = "TypeError"
        THEN Raised(st, ca, t, 500, "Error updating user")
        ELSE IF invalid # ""
        THEN Raised(st, ca, t, 400, invalid)
        ELSE IF ~current.ok
        THEN current
        ELSE IF /\ "email" \in user_data.keys
                /\ user_data.vals.email # current.user.email
                /\ find_one(st, Dict({"email", "_id_ne", "isDeleted"},
                                      [email |-> user_data.vals.email,
                                       _id_ne |-> ObjectId(user_id),
                                       isDeleted |-> FALSE])) # None
        THEN Raised(st, current.cache, t, 400, "Email already exists")
        ELSE LET update == [keys |-> user_data.keys \cup {"updated_at"},
                         vals |-> [user_data.vals EXCEPT
                                      !.updated_at = datetime(t1)]]
                 result == update_one(st, Dict({"_id", "isDeleted"},
                                                [_id |-> ObjectId(user_id),
                                                 isDeleted |-> FALSE]),
                                      update, t2)
                 ca2 == _invalidate_user_cache(current.cache, user_id)
             IN  IF result.modified_count = 0
                 THEN Raised(st, ca2, t2, 400, "Failed to update user")
                 ELSE get_user_by_id(result.store, ca2, t2, user_id, FALSE)

\* variant: the email is looked up after the store write
update_user_check_after_write(st, ca, t, user_id, user_data, t1, t2) ==
    LET invalid == validate_user_data(user_data, TRUE)
        current == get_user_by_id(st, ca, t, user_id, FALSE)
    IN  IF invalid = "TypeError"
        THEN Raised(st, ca, t, 500, "Error updating user")
        ELSE IF invalid # ""
        THEN Raised(st, ca, t, 400, invalid)
        ELSE IF ~current.ok
        THEN current
        ELSE LET update == [keys |-> user_data.keys \cup {"updated_at"},
                            vals |-> [user_data.vals EXCEPT
                                         !.updated_at = datetime(t1)]]
                 result == update_one(st, Dict({"_id", "isDeleted"},
                                                [_id |-> ObjectId(user_id),
                                                 isDeleted |-> FALSE]),
                                      update, t2)
             IN  IF /\ "email" \in user_data.keys
                    /\ user_data.vals.email # current.user.email
                    /\ find_one(st, Dict({"email", "_id_ne", "isDeleted"},
                                          [email |-> user_data.vals.email,
                                           _id_ne |-> ObjectId(user_id),
                                           isDeleted |-> FALSE])) # None
                 THEN Raised(result.store, current.cache, t2, 400,
                             "Email already exists")
                 ELSE IF result.modified_count = 0
                 THEN Raised(st, current.cache, t2, 400, "Failed to update user")
                 ELSE get_user_by_id(result.store,
                                     _invalidate_user_cache(current.cache, user_id),
                                     t2, user_id, FALSE)

update_user(st, ca, t, user_id, user_data, t1, t2) ==
    LET invalid == validate_user_data(user_data, TRUE)
        current == get_user_by_id(st, ca, t, user_id, FALSE)
    IN  IF invalid = "TypeError"
        THEN Raised(st, ca, t, 500, "Error updating user")
        ELSE IF invalid # ""
        THEN Raised(st, ca, t, 400, invalid)
        ELSE IF ~current.ok
        THEN current
        ELSE IF /\ "email" \in user_data.keys
                /\ user_data.vals.email # current.user.email
                /\ find_one(st, Dict({"email", "_id_ne", "isDeleted"},
                                      [email |-> user_data.vals.email,
                                       _id_ne |-> ObjectId(user_id),
                                       isDeleted |-> FALSE])) # None
        THEN Raised(st, current.cache, t, 400, "Email already exists")
        ELSE LET update == [keys |-> user_data.keys \cup {"updated_at"},
                         vals |-> [user_data.vals EXCEPT
                                      !.updated_at = datetime(t1)]]
                 result == update_one(st, Dict({"_id", "isDeleted"},
                                                [_id |-> ObjectId(user_id),
                                                 isDeleted |-> FALSE]),
                                      update, t2)
             IN  IF result.modified_count = 0
                 THEN Raised(st, current.cache, t2, 400, "Failed to update user")
                 ELSE get_user_by_id(result.store,
                                     _invalidate_user_cache(current.cache, user_id),
                                     t2, user_id, FALSE)

\* variant: no check of the isDeleted flag before the update
delete_user_unguarded(st, ca, t, user_id, t1, t2) ==
    IF ~IsValidObjectId(user_id)
    THEN Raised(st, ca, t, 400, "Invalid user ID format")
    ELSE LET user == find_one(st, Dict({"_id"}, [_id |-> ObjectId(user_id)]))
         IN  IF user = None
             THEN Raised(st, ca, t, 404, "User with this ID does not exist")
             ELSE LET update == Dict({"isDeleted", "updated_at"},
                                  [isDeleted |-> TRUE,
                                   updated_at |-> datetime(t1)])
                      result == update_one(st, Dict({"_id", "isDeleted"},
                                                     [_id |-> ObjectId(user_id),
                                                      isDeleted |-> FALSE]),
                                           update, t2)
                  IN  IF result.modified_count = 0
                      THEN Raised(st, ca, t2, 400, "Failed to delete user")
                      ELSE Returned(result.store,
                                    _invalidate_user_cache(ca, user_id),
                                    t2, None, <<>>, "")

\* variant: the record is taken out of the collection (delete_one)
delete_user_hard(st, ca, t, user_id, t1, t2) ==
    IF ~IsValidObjectId(user_id)
    THEN Raised(st, ca, t, 400, "Invalid user ID format")
    ELSE LET user == find_one(st, Dict({"_id"}, [_id |-> ObjectId(user_id)]))
         IN  IF user = None
             THEN Raised(st, ca, t, 404, "User with this ID does not exist")
             ELSE IF user.isDeleted
             THEN Raised(st, ca, t, 400, "User is already deleted")
             ELSE Returned(SelectSeq(st, LAMBDA d : d._id # ObjectId(user_id)),
                           _invalidate_user_cache(ca, user_id),
                           t2, None, <<>>, "")

\* variant: the record is looked up through get_user_by_id, cache first
delete_user_cached_check(st, ca, t, user_id, t1, t2) ==
    LET found == get_user_by_id(st, ca, t, user_id, TRUE)
    IN  IF ~found.ok
        THEN found
        ELSE IF found.user.isDeleted
        THEN Raised(st, ca, t, 400, "User is already deleted")
        ELSE LET update == Dict({"isDeleted", "updated_at"},
                                 [isDeleted |-> TRUE,
                                  updated_at |-> datetime(t1)])
                 result == update_one(st, Dict({"_id", "isDeleted"},
                                                [_id |-> ObjectId(user_id),
                                                 isDeleted |-> FALSE]),
                                      update, t2)
             IN  IF result.modified_count = 0
                 THEN Raised(st, ca, t2, 400, "Failed to delete user")
                 ELSE Returned(result.store,
                               _invalidate_user_cache(ca, user_id),
                               t2, None, <<>>, "")

delete_user(st, ca, t, user_id, t1, t2) ==
    IF ~IsValidObjectId(user_id)
    THEN Raised(st, ca, t, 400, "Invalid user ID format")
    ELSE LET user == find_one(st, Dict({"_id"}, [_id |-> ObjectId(user_id)]))
         IN  IF user = None
             THEN Raised(st, ca, t, 404, "User with this ID does not exist")
             ELSE IF user.isDeleted
             THEN Raised(st, ca, t, 400, "User is already deleted")
             ELSE LET update == Dict({"isDeleted", "updated_at"},
                                  [isDeleted |-> TRUE,
                                   updated_at |-> datetime(t1)])
                      result == update_one(st, Dict({"_id", "isDeleted"},
                                                     [_id |-> ObjectId(user_id),
                                                      isDeleted |-> FALSE]),
                                           update, t2)
                  IN  IF result.modified_count = 0
                      THEN Raised(st, ca, t2, 400, "Failed to delete user")
                      ELSE Returned(result.store,
                                    _invalidate_user_cache(ca, user_id),
                                    t2, None, <<>>, "")

restore_user(st, ca, t, user_id, t1, t2) ==
    IF ~IsValidObjectId(user_id)
    THEN Raised(st, ca, t, 400, "Invalid user ID format")
    ELSE LET user == find_one(st, Dict({"_id"}, [_id |-> ObjectId(user_id)]))
         IN  IF user = None
             THEN Raised(st, ca, t, 404, "User with this ID does not exist")
             ELSE IF ~user.isDeleted
             THEN Raised(st, ca, t, 400, "User is not deleted")
             ELSE LET update == Dict({"isDeleted", "updated_at"},
                                  [isDeleted |-> FALSE,
                                   updated_at |-> datetime(t1)])
                      result == update_one(st, Dict({"_id", "isDeleted"},
                                                     [_id |-> ObjectId(user_id),
                                                      isDeleted |-> TRUE]),
                                           update, t2)
                  IN  IF result.modified_count = 0
                      THEN Raised(st, ca, t2, 400, "Failed to restore user")
                      ELSE get_user_by_id(result.store,
                                          _invalidate_user_cache(ca, user_id),
                                          t2, user_id, TRUE)

----------------------------------------------------------------------------
(* Requests *)

BadEmail == <<"a", "@", "x">>

UsernameInputs == Usernames \cup {"ab"}

EmailInputs == Emails \cup {BadEmail}

DataKeys == {"username", "email"}

DataVals(u, e, d) ==
    [username |-> u, email |-> e, isDeleted |-> d,
     created_at |-> datetime(0), updated_at |-> datetime(0)]

\* the JSON bodies of create and update: any subset of the keys, a key that
\* is absent carrying a fixed filler value
UserData ==
    {data \in [keys : SUBSET DataKeys,
               vals : {DataVals(u, e, d) : u \in UsernameInputs,
                                           e \in EmailInputs,
                                           d \in BOOLEAN}] :
        /\ "username" \notin data.keys => data.vals.username = "ab"
        /\ "email" \notin data.keys => data.vals.email = BadEmail
        /\ "isDeleted" \notin data.keys => data.vals.isDeleted = FALSE}

NoData == [keys |-> {}, vals |-> DataVals("ab", BadEmail, FALSE)]

\* clock readings datetime.utcnow() can give from reading t on
Times(t) == t..MaxClock

----------------------------------------------------------------------------
(* State machine: one action per service call *)

NoCall ==
    [op |-> "", user_id |-> "", include_deleted |-> FALSE, data |-> NoData,
     ok |-> FALSE, status_code |-> 0, message |-> "", user |-> None,
     was_cached |-> FALSE]

Init ==
    /\ store = <<>>
    /\ cache = [k \in CacheKeys |-> None]
    /\ cacheUp \in BOOLEAN
    /\ now = 0
    /\ last = NoCall
    /\ calls = 0
    /\ jobs = <<>>
    /\ procs = <<>>

\* the cache service the user service holds
Cache == [up |-> cacheUp, data |-> cache]

\* the call leaves the store, the cache and the clock as r says; last records
\* the call and its outcome (the request body only of a call that succeeded)
\* and whether the per-id cache entry of user_id existed when the call began
Finish(r, op, user_id, include_deleted, data) ==
    /\ calls < MaxCalls
    /\ calls' = calls + 1
    /\ store' = r.store
    /\ cache' = r.cache.data
    /\ now' = r.now
    /\ last' = [op |-> op, user_id |-> user_id,
                include_deleted |-> include_deleted,
                data |-> IF r.ok THEN data ELSE NoData,
                ok |-> r.ok, status_code |-> r.status_code,
                message |-> r.message, user |-> r.user,
                was_cached |-> /\ user_id # ""
                               /\ cache[_get_user_cache_key(user_id)] # None]
    /\ UNCHANGED <<cacheUp, jobs, procs>>

CreateUser ==
    \E user_data \in UserData :
    \E t1 \in Times(now) : \E t2 \in Times(t1) : \E t3 \in Times(t2) :
        LET r == create_user(store, Cache, now, user_data, t1, t2, t3)
        IN  /\ r.ok => Len(store) < MaxUsers
            /\ Finish(r, "create_user", "", FALSE, user_data)

GetAllUsers ==
    \E include_deleted \in BOOLEAN :
        Finish(get_all_users(store, Cache, now, include_deleted),
               "get_all_users", "", include_deleted, NoData)

GetUserById ==
    \E user_id \in RequestIds : \E include_deleted \in BOOLEAN :
        Finish(get_user_by_id(store, Cache, now, user_id, include_deleted),
               "get_user_by_id", user_id, include_deleted, NoData)

UpdateUser ==
    \E user_id \in RequestIds : \E user_data \in UserData :
    \E t1 \in Times(now) : \E t2 \in Times(t1) :
        Finish(update_user(store, Cache, now, user_id, user_data, t1, t2),
               "update_user", user_id, FALSE, user_data)

DeleteUser ==
    \E user_id \in RequestIds :
    \E t1 \in Times(now) : \E t2 \in Times(t1) :
        Finish(delete_user(store, Cache, now, user_id, t1, t2),
               "delete_user", user_id, FALSE, NoData)

RestoreUser ==
    \E user_id \in RequestIds :
    \E t1 \in Times(now) : \E t2 \in Times(t1) :
        Finish(restore_user(store, Cache, now, user_id, t1, t2),
               "restore_user", user_id, FALSE, NoData)

\* a cache entry reaches its time to live (setex with CACHE_TIMEOUT)
Expire ==
    \E k \in CacheKeys :
        /\ cacheUp
        /\ cache[k] # None
        /\ cache' = [cache EXCEPT ![k] = None]
        /\ UNCHANGED <<store, cacheUp, now, last, calls, jobs, procs>>

Next ==
    \/ CreateUser
    \/ GetAllUsers
    \/ GetUserById
    \/ UpdateUser
    \/ DeleteUser
    \/ RestoreUser
    \/ Expire

Spec == Init /\ [][Next]_vars

----------------------------------------------------------------------------
(* Properties *)

ValidIds == {id \in RequestIds : IsValidObjectId(id)}

\* the stored document of an id, or None
DocOf(st, user_id) == find_one(st, Dict({"_id"}, [_id |-> ObjectId(user_id)]))

\* some non-deleted stored document carries the email
EmailInUse(email) ==
    \E i \in 1..Len(store) : store[i].email = email /\ ~store[i].isDeleted

\* C1: in every state reached by non-interleaved create, update, delete and
\* restore calls, no two records with isDeleted = FALSE share an email.
C1_UniqueActiveEmail ==
    \A i, j \in 1..Len(store) :
        (i # j /\ ~store[i].isDeleted /\ ~store[j].isDeleted)
            => store[i].email # store[j].email

\* C2 as stated: create with the email of an existing non-deleted user fails
\* with 400 "Email already exists" for every username and inserts nothing.
C2_DuplicateEmailEveryUsername ==
    \A data \in UserData :
        ({"username", "email"} \subseteq data.keys /\ EmailInUse(data.vals.email))
            => LET r == create_user(store, Cache, now, data, now, now, now)
               IN  /\ ~r.ok
                   /\ r.status_code = 400
                   /\ r.message = "Email already exists"
                   /\ r.store = store

\* C2 amended: create with the email of an existing non-deleted user inserts
\* nothing and fails with 400: with "Email already exists" for every username
\* that is a string of at least 3 characters, and with the invalid-username
\* message for a shorter one.
C2_DuplicateEmailValidUsername ==
    \A data \in UserData :
        ({"username", "email"} \subseteq data.keys /\ EmailInUse(data.vals.email))
            => LET r == create_user(store, Cache, now, data, now, now, now)
               IN  /\ ~r.ok
                   /\ r.status_code = 400
                   /\ r.store = store
                   /\ r.message =
                        IF Len(data.vals.username) >= 3
                        THEN "Email already exists"
                        ELSE "Username must be a string with at least 3 characters"

C2_Witness ==
    /\ last.op = "create_user"
    /\ last.message = "Email already exists"
    /\ Len(store) > 0

\* C3: after a successful create, getById on the returned id yields a
\* record equal in every field to the record create returned.
C3_CreateThenGetIdentical ==
    (last.op = "create_user" /\ last.ok)
        => LET g == get_user_by_id(store, Cache, now, last.user._id.str, FALSE)
           IN  g.ok /\ g.user = last.user

C5_CachedDeletedLeaks ==
    (/\ last.op = "get_user_by_id"
     /\ last.include_deleted
     /\ last.ok
     /\ last.user.isDeleted
     /\ cache[_get_user_cache_key(last.user_id)] # None)
        => LET g == get_user_by_id(store, Cache, now, last.user_id, FALSE)
           IN  /\ g.ok
               /\ g.source = "cache"
               /\ g.user = last.user
               /\ g.user.isDeleted = TRUE
               /\ DocOf(store, last.user_id).isDeleted = TRUE

C5_Witness ==
    /\ last.op = "get_user_by_id"
    /\ ~last.include_deleted
    /\ last.ok
    /\ last.was_cached
    /\ last.user.isDeleted

\* C6: delete(id) of an already soft-deleted record fails with 400 "User is
\* already deleted" and leaves the stored record and the cache unchanged;
\* delete(id) of an id with no record fails with 404.
C6_DeleteAlreadyDeleted ==
    \A user_id \in ValidIds : \A t1 \in Times(now) : \A t2 \in Times(t1) :
        LET doc == DocOf(store, user_id)
            r == delete_user(store, Cache, now, user_id, t1, t2)
        IN  /\ doc = None
                => /\ ~r.ok
                   /\ r.status_code = 404
                   /\ r.store = store
                   /\ r.cache = Cache
            /\ (doc # None /\ doc.isDeleted)
                => /\ ~r.ok
                   /\ r.status_code = 400
                   /\ r.message = "User is already deleted"
                   /\ r.store = store
                   /\ r.cache = Cache

C6_Witness ==
    /\ last.op = "delete_user"
    /\ last.message = "User is already deleted"
    /\ DocOf(store, last.user_id).isDeleted

C9_RepeatedGetIdentical ==
    /\ \A user_id \in RequestIds : \A include_deleted \in BOOLEAN :
        LET g1 == get_user_by_id(store, Cache, now, user_id, include_deleted)
            g2 == get_user_by_id(g1.store, g1.cache, g1.now, user_id,
                                 include_deleted)
        IN  g1.ok
                => /\ g2.ok
                   /\ g2.user = g1.user
                   /\ g2.store = store
                   /\ cacheUp => g2.source = "cache"
    /\ (/\ last.op = "get_user_by_id"
        /\ last.ok
        /\ (~last.was_cached \/ cache[_get_user_cache_key(last.user_id)] # None))
        => LET g == get_user_by_id(store, Cache, now, last.user_id,
                                   last.include_deleted)
           IN  g.ok /\ g.user = last.user

C9_Witness ==
    /\ last.op = "get_user_by_id"
    /\ last.ok
    /\ last.was_cached
    /\ last.user.updated_at.dt % SecUnit # 0

\* a working cache that holds nothing
ColdCache == [up |-> TRUE, data |-> [k \in CacheKeys |-> None]]

\* two outcomes agree in what the caller sees and in the store
SameOutcome(r, q) ==
    /\ r.ok = q.ok
    /\ r.status_code = q.status_code
    /\ r.message = q.message
    /\ r.user = q.user
    /\ r.users = q.users
    /\ r.store = q.store

\* the outcome of a call made without the cache: no error of the cache
\* (status 500) and nothing kept in the cache
Degraded(r) == r.status_code # 500 /\ r.cache = Cache

\* C10: under a total cache outage every user service call returns the same
\* result, raises the same error and leaves the same store as the call made
\* on the store with nothing cached; reads return what the store holds.
C10_OutageSameAsStore ==
    ~cacheUp =>
        /\ \A data \in UserData :
           \A t1 \in Times(now) : \A t2 \in Times(t1) : \A t3 \in Times(t2) :
            LET r == create_user(store, Cache, now, data, t1, t2, t3)
            IN  /\ SameOutcome(r, create_user(store, ColdCache, now, data,
                                              t1, t2, t3))
                /\ Degraded(r)
        /\ \A include_deleted \in BOOLEAN :
            LET r == get_all_users(store, Cache, now, include_deleted)
            IN  /\ SameOutcome(r, get_all_users(store, ColdCache, now,
                                                include_deleted))
                /\ Degraded(r)
                /\ r.ok
                /\ r.users =
                     LET docs == SelectSeq(store, LAMBDA d :
                                           include_deleted \/ ~d.isDeleted)
                     IN  [i \in 1..Len(docs) |-> from_dict(docs[i])]
        /\ \A user_id \in RequestIds : \A include_deleted \in BOOLEAN :
            LET r == get_user_by_id(store, Cache, now, user_id, include_deleted)
            IN  /\ SameOutcome(r, get_user_by_id(store, ColdCache, now, user_id,
                                                 include_deleted))
                /\ Degraded(r)
                /\ IsValidObjectId(user_id)
                    => LET doc == DocOf(store, user_id)
                       IN  IF doc # None /\ (include_deleted \/ ~doc.isDeleted)
                           THEN r.ok /\ r.user = from_dict(doc)
                           ELSE ~r.ok /\ r.status_code = 404
        /\ \A user_id \in RequestIds : \A data \in UserData :
           \A t1 \in Times(now) : \A t2 \in Times(t1) :
            LET r == update_user(store, Cache, now, user_id, data, t1, t2)
            IN  /\ SameOutcome(r, update_user(store, ColdCache, now, user_id,
                                              data, t1, t2))
                /\ Degraded(r)
        /\ \A user_id \in RequestIds :
           \A t1 \in Times(now) : \A t2 \in Times(t1) :
            LET d == delete_user(store, Cache, now, user_id, t1, t2)
                r == restore_user(store, Cache, now, user_id, t1, t2)
            IN  /\ SameOutcome(d, delete_user(store, ColdCache, now, user_id,
                                              t1, t2))
                /\ Degraded(d)
                /\ SameOutcome(r, restore_user(store, ColdCache, now, user_id,
                                               t1, t2))
                /\ Degraded(r)

C10_Witness ==
    /\ ~cacheUp
    /\ last.op = "update_user"
    /\ last.ok
    /\ Len(store) = MaxUsers

----------------------------------------------------------------------------
(* app/services/redis_cache_service.py, call by call: every call of the     *)
(* redis client can raise (fault), a text stored by another writer need not  *)
(* be JSON, and SCAN walks the keyspace in ScanCursors batches.              *)
(* A client call that raises is taken to have had no effect on the server.   *)

\* a stored text that json.loads rejects
Garbage == [kind |-> "garbage"]

\* what a public method of the adapter gives back: whether an exception
\* left the method, the value returned, the service afterwards and the
\* number of SCAN calls made
Outcome(raised, ret, ca, scans) ==
    [raised |-> raised, ret |-> ret, ca |-> ca, scans |-> scans]

\* json.loads(value); raises ValueError on a text that is not JSON
_deserialize(value) ==
    IF value = None THEN [raised |-> FALSE, value |-> None]
    ELSE IF value = Garbage THEN [raised |-> TRUE, value |-> None]
    ELSE [raised |-> FALSE, value |-> value]

\* variant: the ValueError of _deserialize leaves get
get_unguarded(ca, key, fault) ==
    IF ~_is_client_initialized(ca) THEN Outcome(FALSE, None, ca, 0)
    ELSE IF fault THEN Outcome(FALSE, None, ca, 0)
    ELSE LET data == ca.data[key]
         IN  IF data # None
             THEN LET d == _deserialize(data)
                  IN  Outcome(d.raised, d.value, ca, 0)
             ELSE Outcome(FALSE, None, ca, 0)

get(ca, key, fault) ==
    IF ~_is_client_initialized(ca) THEN Outcome(FALSE, None, ca, 0)
    ELSE IF fault THEN Outcome(FALSE, None, ca, 0)
    ELSE LET data == ca.data[key]
         IN  IF data # None
             THEN LET d == _deserialize(data)
                  IN  IF d.raised THEN Outcome(FALSE, None, ca, 0)
                                  ELSE Outcome(FALSE, d.value, ca, 0)
             ELSE Outcome(FALSE, None, ca, 0)

\* _serialize runs before setex: a value that cannot be serialized, or a
\* setex that raises, ends in the except branch
set(ca, key, value, fault) ==
    IF ~_is_client_initialized(ca) THEN Outcome(FALSE, FALSE, ca, 0)
    ELSE IF ~CanSerialize(value) THEN Outcome(FALSE, FALSE, ca, 0)
    ELSE IF fault THEN Outcome(FALSE, FALSE, ca, 0)
    ELSE Outcome(FALSE, TRUE, [ca EXCEPT !.data[key] = _serialize(value)], 0)

delete(ca, key, fault) ==
    IF ~_is_client_initialized(ca) THEN Outcome(FALSE, FALSE, ca, 0)
    ELSE IF fault THEN Outcome(FALSE, FALSE, ca, 0)
    ELSE Outcome(FALSE, TRUE, [ca EXCEPT !.data[key] = None], 0)

exists(ca, key, fault) ==
    IF ~_is_client_initialized(ca) THEN Outcome(FALSE, FALSE, ca, 0)
    ELSE IF fault THEN Outcome(FALSE, FALSE, ca, 0)
    ELSE Outcome(FALSE, ca.data[key] # None, ca, 0)

\* number of batches a full SCAN iteration takes
ScanCursors == 2

\* keys of the keyspace in the order SCAN walks them
AdapterKeySeq ==
    <<"other:1", _get_all_users_cache_key(FALSE), _get_all_users_cache_key(TRUE),
      _get_user_cache_key(IdPool[1])>>

AdapterKeys == {AdapterKeySeq[i] : i \in 1..Len(AdapterKeySeq)}

\* the batch of a full iteration a key comes in
SlotOf(key) ==
    (CHOOSE i \in 1..Len(AdapterKeySeq) : AdapterKeySeq[i] = key) % ScanCursors

\* glob match of the server: "*" matches any run of characters, any other
\* character of the pattern matches itself
RECURSIVE glob(_, _)
glob(key, pattern) ==
    IF Len(pattern) = 0 THEN Len(key) = 0
    ELSE IF SubSeq(pattern, 1, 1) = "*"
    THEN \/ glob(key, SubSeq(pattern, 2, Len(pattern)))
         \/ Len(key) > 0 /\ glob(SubSeq(key, 2, Len(key)), pattern)
    ELSE /\ Len(key) > 0
         /\ SubSeq(key, 1, 1) = SubSeq(pattern, 1, 1)
         /\ glob(SubSeq(key, 2, Len(key)), SubSeq(pattern, 2, Len(pattern)))

\* client.scan(cursor, match = pattern): the next cursor (0 when the
\* iteration is complete) and the matching keys of the batch
scan(ca, cursor, pattern) ==
    [cursor |-> (cursor + 1) % ScanCursors,
     keys |-> {k \in DOMAIN ca.data :
                 SlotOf(k) = cursor /\ ca.data[k] # None /\ glob(k, pattern)}]

\* the while loop of delete_pattern from the given cursor on, after n calls
\* of the client and scans calls of scan; the fault-th call of the client
\* raises (none when fault is 0)
RECURSIVE delete_pattern_loop(_, _, _, _, _, _)
delete_pattern_loop(ca, pattern, cursor, n, scans, fault) ==
    IF fault = n + 1 THEN Outcome(TRUE, FALSE, ca, scans)
    ELSE LET found == scan(ca, cursor, pattern)
         IN  IF found.keys # {} /\ fault = n + 2
             THEN Outcome(TRUE, FALSE, ca, scans + 1)
             ELSE LET ca2 == [ca EXCEPT !.data = [k \in DOMAIN ca.data |->
                                IF k \in found.keys THEN None ELSE ca.data[k]]]
                      n2 == IF found.keys # {} THEN n + 2 ELSE n + 1
                  IN  IF found.cursor = 0
                      THEN Outcome(FALSE, TRUE, ca2, scans + 1)
                      ELSE delete_pattern_loop(ca2, pattern, found.cursor, n2,
                                               scans + 1, fault)

\* variant: one call of scan, no loop over the cursor
delete_pattern_call_single_scan(ca, pattern, fault) ==
    IF ~_is_client_initialized(ca) THEN Outcome(FALSE, FALSE, ca, 0)
    ELSE IF fault = 1 THEN Outcome(FALSE, FALSE, ca, 0)
    ELSE LET found == scan(ca, 0, pattern)
         IN  IF found.keys # {} /\ fault = 2
             THEN Outcome(FALSE, FALSE, ca, 1)
             ELSE Outcome(FALSE, TRUE,
                          [ca EXCEPT !.data = [k \in DOMAIN ca.data |->
                              IF k \in found.keys THEN None ELSE ca.data[k]]],
                          1)

delete_pattern_call(ca, pattern, fault) ==
    IF ~_is_client_initialized(ca) THEN Outcome(FALSE, FALSE, ca, 0)
    ELSE LET r == delete_pattern_loop(ca, pattern, 0, 0, 0, fault)
         IN  IF r.raised THEN Outcome(FALSE, FALSE, r.ca, r.scans)
                         ELSE Outcome(FALSE, TRUE, r.ca, r.scans)

----------------------------------------------------------------------------
(* The cache adapter on its own: calls of its public methods on a keyspace  *)
(* that another writer shares. cache is the keyspace, cacheUp whether the   *)
(* client was initialized; last records the latest call.                    *)

\* patterns handed to delete_pattern
Patterns == {"user:*", "user:all:*", "user:u1", "none:*", "*"}

SampleDoc ==
    [_id |-> ObjectId(IdPool[1]), username |-> "alice", email |-> EmailA,
     created_at |-> datetime(1), updated_at |-> datetime(1), isDeleted |-> FALSE]

\* values handed to set: a document with its ObjectId (not serializable),
\* the document with the id as text, and a list of it
AdapterValues ==
    {[kind |-> "dict", val |-> SampleDoc],
     [kind |-> "dict", val |-> [SampleDoc EXCEPT !._id = str(@)]],
     [kind |-> "list", val |-> <<[SampleDoc EXCEPT !._id = str(@)]>>]}

\* the client calls of one delete_pattern that can raise (0: none does)
Faults == 0..(2 * ScanCursors)

NoAdapterCall == [op |-> "", key |-> "", ret |-> None, removed |-> 0]

AdapterInit ==
    /\ store = <<>>
    /\ cache = [k \in AdapterKeys |-> None]
    /\ cacheUp \in BOOLEAN
    /\ now = 0
    /\ last = NoAdapterCall
    /\ calls = 0
    /\ jobs = <<>>
    /\ procs = <<>>

\* the call leaves the keyspace as r says; last records the method, its key
\* or pattern, the value returned and the number of entries it removed
AdapterFinish(r, op, key) ==
    /\ cache' = r.ca.data
    /\ last' = [op |-> op, key |-> key, ret |-> r.ret,
                removed |-> Cardinality({k \in AdapterKeys :
                                cache[k] # None /\ r.ca.data[k] = None})]
    /\ UNCHANGED <<store, cacheUp, now, calls, jobs, procs>>

AdapterGet ==
    \E key \in AdapterKeys : \E fault \in BOOLEAN :
        AdapterFinish(get(Cache, key, fault), "get", key)

AdapterSet ==
    \E key \in AdapterKeys : \E value \in AdapterValues : \E fault \in BOOLEAN :
        AdapterFinish(set(Cache, key, value, fault), "set", key)

AdapterDelete ==
    \E key \in AdapterKeys : \E fault \in BOOLEAN :
        AdapterFinish(delete(Cache, key, fault), "delete", key)

AdapterExists ==
    \E key \in AdapterKeys : \E fault \in BOOLEAN :
        AdapterFinish(exists(Cache, key, fault), "exists", key)

AdapterDeletePattern ==
    \E pattern \in Patterns : \E fault \in Faults :
        AdapterFinish(delete_pattern_call(Cache, pattern, fault),
                      "delete_pattern", pattern)

\* another writer of the keyspace stores a text that is not JSON
OtherWriter ==
    \E key \in AdapterKeys :
        /\ cache[key] # Garbage
        /\ cache' = [cache EXCEPT ![key] = Garbage]
        /\ UNCHANGED <<store, cacheUp, now, last, calls, jobs, procs>>

AdapterNext ==
    \/ AdapterGet
    \/ AdapterSet
    \/ AdapterDelete
    \/ AdapterExists
    \/ AdapterDeletePattern
    \/ OtherWriter

AdapterSpec == AdapterInit /\ [][AdapterNext]_vars

\* client calls a delete_pattern makes when none of them raises: one scan
\* per batch and one delete per batch that has a matching key
ClientCalls(ca, pattern) ==
    ScanCursors
        + Cardinality({c \in 0..(ScanCursors - 1) : scan(ca, c, pattern).keys # {}})

\* C11: no method of the cache adapter lets an exception out. With the
\* client uninitialized, or when the client call raises, or when the value
\* cannot be serialized or the stored text cannot be parsed, get returns None
\* and set, delete, delete_pattern and exists return False; a set that returns
\* False leaves the keyspace as it was, so the entry stored under the key
\* before is still there.
C11_AdapterNeverRaises ==
    /\ \A key \in AdapterKeys : \A fault \in BOOLEAN :
        LET g == get(Cache, key, fault)
            d == delete(Cache, key, fault)
            e == exists(Cache, key, fault)
        IN  /\ ~g.raised /\ ~d.raised /\ ~e.raised
            /\ g.ca = Cache /\ e.ca = Cache
            /\ (~cacheUp \/ fault \/ cache[key] = Garbage) => g.ret = None
            /\ (~cacheUp \/ fault) => (d.ret = FALSE /\ d.ca = Cache)
            /\ (~cacheUp \/ fault) => e.ret = FALSE
            /\ \A value \in AdapterValues :
                LET s == set(Cache, key, value, fault)
                IN  /\ ~s.raised
                    /\ s.ret = ~(~cacheUp \/ fault \/ ~CanSerialize(value))
                    /\ s.ret = FALSE => s.ca = Cache
    /\ \A pattern \in Patterns : \A fault \in Faults :
        LET p == delete_pattern_call(Cache, pattern, fault)
        IN  /\ ~p.raised
            /\ p.ret = ~(~cacheUp \/ fault \in 1..ClientCalls(Cache, pattern))

\* a set that failed on a key that holds an entry
C11_Witness ==
    /\ cacheUp
    /\ last.op = "set"
    /\ last.ret = FALSE
    /\ cache[last.key] \notin {None, Garbage}
    /\ \E k \in AdapterKeys : cache[k] = Garbage

\* C20: with a working client, delete_pattern(p) returns True for every
\* pattern, also one that no key matches; afterwards no key matching p holds
\* an entry and every other key holds what it held; the loop makes one scan
\* per batch and stops at the scan that returns cursor 0. On the keys of the
\* user service it does what the invalidation of the list entries relies on.
C20_DeletePattern ==
    cacheUp =>
        /\ \A pattern \in Patterns :
            LET p == delete_pattern_call(Cache, pattern, 0)
            IN  /\ p.ret = TRUE
                /\ ~p.raised
                /\ p.scans = ScanCursors
                /\ \A k \in AdapterKeys :
                    p.ca.data[k] = IF glob(k, pattern) THEN None ELSE cache[k]
        /\ delete_pattern_call(Cache, CACHE_PREFIX \o "all:*", 0).ca
             = delete_pattern(Cache, CACHE_PREFIX \o "all:")

\* a delete_pattern that removed entries of two batches and left an entry
\* of a key that does not match
C20_Witness ==
    /\ cacheUp
    /\ last.op = "delete_pattern"
    /\ last.key = "user:all:*"
    /\ last.ret = TRUE
    /\ last.removed = 2
    /\ cache[_get_user_cache_key(IdPool[1])] \notin {None, Garbage}

----------------------------------------------------------------------------
(* app/routes/user_routes.py: the handlers call the methods on the class    *)
(* UserService itself, UserService.create_user(data), not on the instance   *)
(* app.user_service, so the first positional argument is bound to self.     *)

\* the exception of a call made on the class of a method that has the given
\* number of required parameters (self counted) with the given number of
\* positional arguments: a TypeError for the parameter left without
\* argument, else the AttributeError of the first use of self (a str, a
\* bool or a dict) in the body
ClassCall(required, given) ==
    IF given < required THEN "TypeError" ELSE "AttributeError"

\* except Exception as e: raise APIError(str(e), 500)
Unexpected(st, ca, t, e) == Raised(st, ca, t, 500, e)

\* POST /api/users/ -- UserService.create_user(data) with parameters
\* (self, user_data)
route_create_user(st, ca, t, data) ==
    IF data.keys = {}
    THEN Raised(st, ca, t, 400, "No input data provided")
    ELSE Unexpected(st, ca, t, ClassCall(2, 1))

\* GET /api/users/ -- UserService.get_all_users(include_deleted) with
\* parameters (self, include_deleted = False); the AttributeError is raised
\* inside the try of the method
route_get_users(st, ca, t, include_deleted) ==
    IF ClassCall(1, 1) = "AttributeError"
    THEN Raised(st, ca, t, 500, "Error fetching users")
    ELSE Unexpected(st, ca, t, ClassCall(1, 1))

\* GET /api/users/<user_id> -- UserService.get_user_by_id(user_id,
\* include_deleted) with parameters (self, user_id, include_deleted = False)
route_get_user(st, ca, t, user_id, include_deleted) ==
    IF ClassCall(2, 2) = "AttributeError"
    THEN Raised(st, ca, t, 500, "Error fetching user")
    ELSE Unexpected(st, ca, t, ClassCall(2, 2))

\* DELETE /api/users/<user_id> -- UserService.delete_user(user_id) with
\* parameters (self, user_id)
route_delete_user(st, ca, t, user_id) ==
    Unexpected(st, ca, t, ClassCall(2, 1))

\* POST /api/users/<user_id>/restore -- UserService.restore_user(user_id)
\* with parameters (self, user_id)
route_restore_user(st, ca, t, user_id) ==
    Unexpected(st, ca, t, ClassCall(2, 1))

\* PUT /api/users/<user_id> -- UserService.update_user(user_id, data) with
\* parameters (self, user_id, user_data)
route_update_user(st, ca, t, user_id, data) ==
    IF data.keys = {}
    THEN Raised(st, ca, t, 400, "No input data provided")
    ELSE Unexpected(st, ca, t, ClassCall(3, 2))

----------------------------------------------------------------------------
(* The service driven through its HTTP routes: one action per handler *)

PostUser ==
    \E data \in UserData :
        Finish(route_create_user(store, Cache, now, data),
               "POST /api/users/", "", FALSE, data)

GetUsers ==
    \E include_deleted \in BOOLEAN :
        Finish(route_get_users(store, Cache, now, include_deleted),
               "GET /api/users/", "", include_deleted, NoData)

GetUser ==
    \E user_id \in RequestIds : \E include_deleted \in BOOLEAN :
        Finish(route_get_user(store, Cache, now, user_id, include_deleted),
               "GET /api/users/<user_id>", user_id, include_deleted, NoData)

DeleteUserRoute ==
    \E user_id \in RequestIds :
        Finish(route_delete_user(store, Cache, now, user_id),
               "DELETE /api/users/<user_id>", user_id, FALSE, NoData)

PostRestore ==
    \E user_id \in RequestIds :
        Finish(route_restore_user(store, Cache, now, user_id),
               "POST /api/users/<user_id>/restore", user_id, FALSE, NoData)

PutUser ==
    \E user_id \in RequestIds : \E data \in UserData :
        Finish(route_update_user(store, Cache, now, user_id, data),
               "PUT /api/users/<user_id>", user_id, FALSE, data)

RouteNext ==
    \/ PostUser
    \/ GetUsers
    \/ GetUser
    \/ DeleteUserRoute
    \/ PostRestore
    \/ PutUser

RouteSpec == Init /\ [][RouteNext]_vars

\* C12: from every state, for every body with a valid username and a valid
\* email that no stored active user has, the requests POST create, POST
\* create again, DELETE, GET, GET with include_deleted=true and POST restore
\* are answered 201 with isDeleted false, 400 "Email already exists", 204,
\* 404, 200 with isDeleted true and 200 with isDeleted false.
C12_RouteScenario ==
    \A data \in UserData :
        (/\ data.keys = {"username", "email"}
         /\ validate_user_data(data, FALSE) = ""
         /\ ~EmailInUse(data.vals.email)
         /\ Len(store) < MaxUsers)
            => LET c1 == route_create_user(store, Cache, now, data)
                   c2 == route_create_user(c1.store, c1.cache, c1.now, data)
                   id == c1.user._id.str
                   d == route_delete_user(c2.store, c2.cache, c2.now, id)
                   g == route_get_user(d.store, d.cache, d.now, id, FALSE)
                   gd == route_get_user(g.store, g.cache, g.now, id, TRUE)
                   r == route_restore_user(gd.store, gd.cache, gd.now, id)
               IN  /\ c1.ok
                   /\ c1.status_code = 201
                   /\ c1.user.isDeleted = FALSE
                   /\ ~c2.ok
                   /\ c2.status_code = 400
                   /\ c2.message = "Email already exists"
                   /\ d.ok
                   /\ d.status_code = 204
                   /\ ~g.ok
                   /\ g.status_code = 404
                   /\ gd.ok
                   /\ gd.status_code = 200
                   /\ gd.user.isDeleted = TRUE
                   /\ r.ok
                   /\ r.status_code = 200
                   /\ r.user.isDeleted = FALSE

----------------------------------------------------------------------------
(* Properties of the user service, continued *)

\* request bodies that pass validation on update
ValidUpdates == {data \in UserData : validate_user_data(data, TRUE) = ""}

\* the call failed with 400 "Invalid user ID format"
InvalidIdFormat(r) ==
    /\ ~r.ok
    /\ r.status_code = 400
    /\ r.message = "Invalid user ID format"

\* C13: in every reachable state of store and cache, for every id string
\* that is no valid ObjectId, get_user_by_id (with either flag), update_user
\* (with valid data), delete_user and restore_user fail with 400 "Invalid
\* user ID format", never with a 500 and never with a result.
C13_InvalidIdIs400 ==
    \A user_id \in RequestIds \ ValidIds :
        /\ \A include_deleted \in BOOLEAN :
            InvalidIdFormat(get_user_by_id(store, Cache, now, user_id,
                                           include_deleted))
        /\ \A data \in ValidUpdates :
            InvalidIdFormat(update_user(store, Cache, now, user_id, data,
                                        now, now))
        /\ InvalidIdFormat(delete_user(store, Cache, now, user_id, now, now))
        /\ InvalidIdFormat(restore_user(store, Cache, now, user_id, now, now))

\* C14: in every reachable state of store and cache, update_user(id, data)
\* with valid data fails with 404 when the store holds no record of id or
\* holds one with isDeleted = TRUE.
C14_UpdateNotFound ==
    \A user_id \in ValidIds : \A data \in ValidUpdates :
    \A t1 \in Times(now) : \A t2 \in Times(t1) :
        LET doc == DocOf(store, user_id)
            r == update_user(store, Cache, now, user_id, data, t1, t2)
        IN  (doc = None \/ doc.isDeleted)
                => /\ ~r.ok
                   /\ r.status_code = 404
                   /\ r.store = store

----------------------------------------------------------------------------
(* The user service called with update bodies that carry keys validation    *)
(* does not look at: validate_user_data checks username and email only and  *)
(* update_user hands the whole body to $set.                                *)

\* bodies of update with any subset of the keys username, created_at and
\* isDeleted
AnyKeyData ==
    {data \in [keys : SUBSET {"username", "created_at", "isDeleted"},
               vals : {[DataVals(u, BadEmail, d) EXCEPT
                           !.created_at = datetime(c)] :
                       u \in UsernameInputs, c \in 0..MaxClock,
                       d \in BOOLEAN}] :
        /\ "username" \notin data.keys => data.vals.username = "ab"
        /\ "created_at" \notin data.keys => data.vals.created_at = datetime(0)
        /\ "isDeleted" \notin data.keys => data.vals.isDeleted = FALSE}

UpdateUserAnyKey ==
    \E user_id \in RequestIds : \E user_data \in AnyKeyData :
    \E t1 \in Times(now) : \E t2 \in Times(t1) :
        Finish(update_user(store, Cache, now, user_id, user_data, t1, t2),
               "update_user", user_id, FALSE, user_data)

AnyKeyNext ==
    \/ CreateUser
    \/ GetAllUsers
    \/ GetUserById
    \/ UpdateUserAnyKey
    \/ DeleteUser
    \/ RestoreUser
    \/ Expire

AnyKeySpec == Init /\ [][AnyKeyNext]_vars

\* C15: no call of the user service changes the created_at of a stored
\* record: not an update with any data that validation accepts, not a delete,
\* not a restore.
C15_CreatedAtNeverChanges ==
    [][\A i \in 1..Len(store) : store'[i].created_at = store[i].created_at]_vars

\* C16: with a clock that never goes back, every stored record has
\* updated_at >= created_at in every reachable state.
C16_UpdatedNotBeforeCreated ==
    \A i \in 1..Len(store) : store[i].updated_at.dt >= store[i].created_at.dt

\* the stored documents a listing with the flag is to return, as Users
Listed(st, include_deleted) ==
    LET docs == SelectSeq(st, LAMBDA d : include_deleted \/ ~d.isDeleted)
    IN  [i \in 1..Len(docs) |-> from_dict(docs[i])]

ValidationData ==
    {data \in [keys : SUBSET DataKeys,
               vals : {DataVals(u, e, FALSE) :
                       u \in UsernameInputs \cup {NumberName},
                       e \in EmailInputs \cup {NumberEmail}}] :
        /\ "username" \notin data.keys => data.vals.username = "ab"
        /\ "email" \notin data.keys => data.vals.email = BadEmail}

MissingFields(data) == ~({"username", "email"} \subseteq data.keys)

\* a present email that does not match the pattern
EmailRejected(data) ==
    /\ "email" \in data.keys
    /\ (data.vals.email = NumberEmail \/ ~validate_email(data.vals.email))

\* a present username that is not a string of length >= 3
UsernameRejected(data) ==
    /\ "username" \in data.keys
    /\ (data.vals.username = NumberName \/ Len(data.vals.username) < 3)

ValidationMessages ==
    {"Missing required fields: username and email", "Invalid email format",
     "Username must be a string with at least 3 characters"}

\* the call failed with 400 and the message
Fails400(r, message) == ~r.ok /\ r.status_code = 400 /\ r.message = message

\* C18: create of data lacking username or email fails with 400 "Missing
\* required fields"; on create (with both keys) and on update, a present
\* email that does not match the pattern fails with 400 "Invalid email
\* format" and, the email being absent or valid, a present username that is
\* no string of length >= 3 fails with 400 "Username must be ..."; update
\* never asks for the required keys; data that passes these checks is not
\* rejected by validation.
C18_Validation ==
    \A data \in ValidationData :
        LET c == create_user(store, Cache, now, data, now, now, now)
        IN  /\ MissingFields(data)
                => Fails400(c, "Missing required fields: username and email")
            /\ (~MissingFields(data) /\ EmailRejected(data))
                => Fails400(c, "Invalid email format")
            /\ (~MissingFields(data) /\ ~EmailRejected(data)
                    /\ UsernameRejected(data))
                => Fails400(c, "Username must be a string with at least 3 characters")
            /\ (~MissingFields(data) /\ ~EmailRejected(data)
                    /\ ~UsernameRejected(data))
                => (c.ok \/ c.message \notin ValidationMessages)
            /\ \A user_id \in RequestIds :
                LET u == update_user(store, Cache, now, user_id, data, now, now)
                IN  /\ EmailRejected(data)
                        => Fails400(u, "Invalid email format")
                    /\ (~EmailRejected(data) /\ UsernameRejected(data))
                        => Fails400(u, "Username must be a string with at least 3 characters")
                    /\ (~EmailRejected(data) /\ ~UsernameRejected(data))
                        => (u.ok \/ u.message \notin ValidationMessages)

\* the update was turned down by validation or by the lookup of the email
RejectedUpdate(r) ==
    /\ ~r.ok
    /\ r.status_code = 400
    /\ r.message \in ValidationMessages \cup {"Email already exists"}

\* getById(id) gives the caller the same before and after
SameLookup(st1, ca1, st2, ca2, user_id) ==
    \A include_deleted \in BOOLEAN :
        LET g1 == get_user_by_id(st1, ca1, now, user_id, include_deleted)
            g2 == get_user_by_id(st2, ca2, now, user_id, include_deleted)
        IN  /\ g1.ok = g2.ok
            /\ g1.status_code = g2.status_code
            /\ g1.user = g2.user

\* C19 as stated: an update that fails validation or the duplicate-email
\* check leaves the store and every cache entry as they were, and getById(id)
\* returns after it what it returned before.
C19_FailedUpdateChangesNothing ==
    \A user_id \in RequestIds : \A data \in UserData :
    \A t1 \in Times(now) : \A t2 \in Times(t1) :
        LET r == update_user(store, Cache, now, user_id, data, t1, t2)
        IN  RejectedUpdate(r)
                => /\ r.store = store
                   /\ r.cache = Cache
                   /\ SameLookup(store, Cache, r.store, r.cache, user_id)

\* C19 amended: an update that fails validation or the duplicate-email check
\* leaves the store as it was and getById(id) returns after it what it
\* returned before; it leaves every cache entry as it was, except that the
\* update failing the duplicate-email check has put the stored, non-deleted
\* record of id into the cache when it was not there.
C19_FailedUpdateFrame ==
    \A user_id \in RequestIds : \A data \in UserData :
    \A t1 \in Times(now) : \A t2 \in Times(t1) :
        LET r == update_user(store, Cache, now, user_id, data, t1, t2)
            key == _get_user_cache_key(user_id)
        IN  RejectedUpdate(r)
                => /\ r.store = store
                   /\ r.now = now
                   /\ SameLookup(store, Cache, r.store, r.cache, user_id)
                   /\ \A k \in CacheKeys \ {key} : r.cache.data[k] = cache[k]
                   /\ (r.message # "Email already exists" \/ cache[key] # None
                          \/ ~cacheUp)
                        => r.cache = Cache
                   /\ (r.message = "Email already exists" /\ cache[key] = None
                          /\ cacheUp)
                        => /\ r.cache.data[key] # None
                           /\ from_dict(r.cache.data[key].val)
                                = from_dict(DocOf(store, user_id))
                           /\ ~DocOf(store, user_id).isDeleted

\* an update turned down for its email has filled the cache entry of the id
C19_Witness ==
    /\ last.op = "update_user"
    /\ last.message = "Email already exists"
    /\ ~last.was_cached
    /\ cacheUp
    /\ cache[_get_user_cache_key(last.user_id)] # None

----------------------------------------------------------------------------
(* queue_service.py, worker.py and task_processor.py: the job queue.  jobs is
   the sequence of the jobs enqueued so far, in the order of their ids. *)

\* largest number of jobs enqueued in one behaviour
MaxJobs == 2

\* the ids the queue hands out, in order, and an id it never hands out
JobIdSeq == <<"job1", "job2", "job3", "job4">>
JobIdInputs == {JobIdSeq[i] : i \in 1..Len(JobIdSeq)} \cup {"non_existent"}

process_data(data) ==
    [processed |-> TRUE, input |-> data,
     result |-> "Task completed successfully"]

\* a task that reads the message of its payload (it raises on null, see
\* perform)
read_message(data) == PyStr(data)

Funcs == {"process_data", "read_message"}

\* what the worker gets from func(payload): the value returned, or the
\* exception raised
perform(func, payload) ==
    IF func = "process_data"
    THEN [raised |-> FALSE, value |-> process_data(payload)]
    ELSE IF payload = "null"
    THEN [raised |-> TRUE, value |-> [exc |-> "TypeError"]]
    ELSE [raised |-> FALSE, value |-> read_message(payload)]

\* Queue.enqueue: a new job with a fresh id, status queued
enqueue(q, func, payload, t) ==
    Append(q, [id |-> JobIdSeq[Len(q) + 1], status |-> "queued",
               result |-> None, exc_info |-> None,
               enqueued_at |-> datetime(t), func |-> func,
               payload |-> payload, stored |-> TRUE])

\* Queue.fetch_job: the job of that id, None when there is none
fetch_job(q, job_id) ==
    IF \E i \in 1..Len(q) : q[i].id = job_id /\ q[i].stored
    THEN q[CHOOSE i \in 1..Len(q) : q[i].id = job_id /\ q[i].stored]
    ELSE None

add_job(q, func, payload, t) ==
    LET queue == enqueue(q, func, payload, t)
    IN  [raised |-> FALSE, queue |-> queue, ret |-> queue[Len(queue)].id]

\* variant: the status of a job that is not there is read all the same
get_job_status_unchecked(q, job_id) ==
    LET job == fetch_job(q, job_id)
    IN  IF job = None
        THEN [raised |-> TRUE, queue |-> q, ret |-> None]
        ELSE [raised |-> FALSE, queue |-> q,
              ret |-> [id |-> job.id, status |-> job.status,
                       result |-> job.result,
                       error |-> IF job.exc_info # None
                                 THEN PyStr(job.exc_info.exc) ELSE None,
                       enqueued_at |-> isoformat(job.enqueued_at)]]

get_job_status(q, job_id) ==
    LET job == fetch_job(q, job_id)
    IN  IF job = None
        THEN [raised |-> FALSE, queue |-> q, ret |-> [status |-> "not_found"]]
        ELSE [raised |-> FALSE, queue |-> q,
              ret |-> [id |-> job.id, status |-> job.status,
                       result |-> job.result,
                       error |-> IF job.exc_info # None
                                 THEN PyStr(job.exc_info.exc) ELSE None,
                       enqueued_at |-> isoformat(job.enqueued_at)]]

----------------------------------------------------------------------------
(* State machine of the queue: the service's two calls and the worker *)

NoQueueCall == [op |-> "", job_id |-> "", raised |-> FALSE, ret |-> None]

QueueInit ==
    /\ store = <<>>
    /\ cache = [k \in CacheKeys |-> None]
    /\ cacheUp = TRUE
    /\ now = 0
    /\ last = NoQueueCall
    /\ calls = 0
    /\ jobs = <<>>
    /\ procs = <<>>

QueueFinish(r, op, job_id) ==
    /\ jobs' = r.queue
    /\ last' = [op |-> op, job_id |-> job_id, raised |-> r.raised,
                ret |-> r.ret]
    /\ UNCHANGED <<store, cache, cacheUp, calls, procs>>

AddJob ==
    \E func \in Funcs : \E payload \in {"message", "null"} : \E t \in Times(now) :
        /\ Len(jobs) < MaxJobs
        /\ now' = t
        /\ QueueFinish(add_job(jobs, func, payload, t), "add_job", "")

GetJobStatus ==
    \E job_id \in JobIdInputs :
        /\ QueueFinish(get_job_status(jobs, job_id), "get_job_status", job_id)
        /\ UNCHANGED now

\* Worker.work: the worker takes a queued job
WorkerStart ==
    \E i \in 1..Len(jobs) :
        /\ jobs[i].stored
        /\ jobs[i].status = "queued"
        /\ jobs' = [jobs EXCEPT ![i].status = "started"]
        /\ UNCHANGED <<store, cache, cacheUp, now, last, calls, procs>>

\* Worker.work: the job's function has returned or raised
WorkerPerform ==
    \E i \in 1..Len(jobs) :
        LET out == perform(jobs[i].func, jobs[i].payload)
        IN  /\ jobs[i].stored
            /\ jobs[i].status = "started"
            /\ jobs' = IF out.raised
                       THEN [jobs EXCEPT ![i].status = "failed",
                                         ![i].exc_info = out.value]
                       ELSE [jobs EXCEPT ![i].status = "finished",
                                         ![i].result = out.value]
            /\ UNCHANGED <<store, cache, cacheUp, now, last, calls, procs>>

\* the queue drops a finished job when the time to keep its result is over
ResultExpires ==
    \E i \in 1..Len(jobs) :
        /\ jobs[i].stored
        /\ jobs[i].status = "finished"
        /\ jobs' = [jobs EXCEPT ![i].stored = FALSE]
        /\ UNCHANGED <<store, cache, cacheUp, now, last, calls, procs>>

QueueNext ==
    \/ AddJob
    \/ GetJobStatus
    \/ WorkerStart
    \/ WorkerPerform
    \/ ResultExpires

QueueSpec == QueueInit /\ [][QueueNext]_vars

\* the ids no add_job has returned
NeverEnqueued == {id \in JobIdInputs : \A i \in 1..Len(jobs) : jobs[i].id # id}

\* what get_job_status tells of a job that is in the queue
StatusOf(q, i) == get_job_status(q, q[i].id).ret

----------------------------------------------------------------------------
(* user_service.py under concurrent requests.  procs holds the calls in
   flight, one per request thread: pc is the store or cache operation the
   call makes next, cur the value its last read returned.  Each step is one
   operation on the store or on the cache. *)

\* largest number of calls in flight at once
MaxProcs == 2

ProcIds == 1..MaxProcs

Writers == {"create_user", "update_user", "delete_user", "restore_user"}

\* request bodies of the concurrent calls
ConcCreateData ==
    {data \in UserData : data.keys = {"username", "email"}
                         /\ data.vals.username = "alice"
                         /\ validate_user_data(data, FALSE) = ""}

ConcUpdateData ==
    {data \in UserData : data.keys = {"email"} /\ data.vals.email = EmailB}

Idle ==
    [op |-> "", pc |-> "idle", user_id |-> "", include_deleted |-> FALSE,
     data |-> NoData, after |-> "", cur |-> None, checked |-> 0,
     ok |-> FALSE, status_code |-> 0, message |-> "", user |-> None,
     users |-> <<>>, clean |-> FALSE, snap |-> None, started |-> 0,
     quiet |-> FALSE]

InFlight(q) == procs[q].pc \notin {"idle", "done"}

ConcInit ==
    /\ store = <<>>
    /\ cache = [k \in CacheKeys |-> None]
    /\ cacheUp = TRUE
    /\ now = 0
    /\ last = NoCall
    /\ calls = 0
    /\ jobs = <<>>
    /\ procs = [p \in ProcIds |-> Idle]

\* no writer is in flight beside thread p
NoWriterBeside(p) ==
    \A w \in ProcIds \ {p} : InFlight(w) => procs[w].op \notin Writers

\* a request thread enters a service method: started numbers the calls,
\* quiet and clean tell that no writer is in flight, snap is what the store
\* holds for the call at that moment; a writer that enters ends the clean
\* run of the calls in flight
Begin(p, op, user_id, include_deleted, data, pc, after, snap) ==
    /\ calls < MaxCalls
    /\ ~InFlight(p)
    /\ \A q \in 1..(p - 1) : InFlight(q)
    /\ calls' = calls + 1
    /\ procs' = [q \in ProcIds |->
                    IF q = p
                    THEN [Idle EXCEPT !.op = op, !.pc = pc,
                                      !.user_id = user_id,
                                      !.include_deleted = include_deleted,
                                      !.data = data, !.after = after,
                                      !.snap = snap,
                                      !.started = calls + 1,
                                      !.quiet = NoWriterBeside(p),
                                      !.clean = NoWriterBeside(p)]
                    ELSE IF op \in Writers /\ InFlight(q)
                    THEN [procs[q] EXCEPT !.clean = FALSE]
                    ELSE procs[q]]
    /\ UNCHANGED <<store, cache, cacheUp, now, last, jobs>>

\* the call of thread p goes on as rec says
Goes(p, rec) == procs' = [procs EXCEPT ![p] = rec]

\* the call of thread p returns or raises, and its locals are gone
Ends(p, ok, status_code, message, user, users) ==
    Goes(p, [procs[p] EXCEPT !.pc = "done", !.ok = ok,
                             !.status_code = status_code,
                             !.message = message, !.user = user,
                             !.users = users, !.cur = None,
                             !.data = NoData, !.after = "",
                             !.include_deleted = FALSE])

Fails(p, status_code, message) == Ends(p, FALSE, status_code, message, None, <<>>)

\* create_user ------------------------------------------------------------

CallCreate ==
    \E p \in ProcIds : \E data \in ConcCreateData :
        Begin(p, "create_user", "", FALSE, data, "create.check", "", None)

\* validate_user_data and the lookup of the email
CreateCheck ==
    \E p \in ProcIds :
        LET data == procs[p].data
            invalid == validate_user_data(data, FALSE)
        IN  /\ procs[p].pc = "create.check"
            /\ IF invalid = "TypeError"
               THEN Fails(p, 500, "Error creating user")
               ELSE IF invalid # ""
               THEN Fails(p, 400, invalid)
               ELSE IF find_one(store, Dict({"email", "isDeleted"},
                                            [email |-> data.vals.email,
                                             isDeleted |-> FALSE])) # None
               THEN Fails(p, 400, "Email already exists")
               ELSE Goes(p, [procs[p] EXCEPT !.pc = "create.insert",
                                             !.checked = Len(store)])
            /\ UNCHANGED <<store, cache, cacheUp, now, last, calls, jobs>>

\* variant: the insert looks the email up once more and does nothing when
\* it is taken
CreateInsertStore_if_free(st, data, t) ==
    IF find_one(st, Dict({"email", "isDeleted"},
                         [email |-> data.vals.email, isDeleted |-> FALSE])) # None
    THEN [store |-> st, inserted_id |-> PyStr(IdPool[Len(st)])]
    ELSE insert_one(st, to_dict(User(data, t, t),
                                ObjectId(IdPool[Len(st) + 1])), t)

\* User(**user_data), to_dict and insert_one
CreateInsertStore(st, data, t) ==
    insert_one(st, to_dict(User(data, t, t), ObjectId(IdPool[Len(st) + 1])), t)

CreateInsert ==
    \E p \in ProcIds : \E t \in Times(now) :
        LET ins == CreateInsertStore(store, procs[p].data, t)
        IN  /\ procs[p].pc = "create.insert"
            /\ Len(store) < MaxUsers
            /\ store' = ins.store
            /\ now' = t
            /\ Goes(p, [procs[p] EXCEPT
                           !.pc = "create.invalidate",
                           !.user = [User(procs[p].data, t, t) EXCEPT
                                        !._id = ins.inserted_id]])
            /\ UNCHANGED <<cache, cacheUp, last, calls, jobs>>

CreateInvalidate ==
    \E p \in ProcIds :
        /\ procs[p].pc = "create.invalidate"
        /\ cache' = delete_pattern(Cache, CACHE_PREFIX \o "all:").data
        /\ Ends(p, TRUE, 0, "", procs[p].user, <<>>)
        /\ UNCHANGED <<store, cacheUp, now, last, calls, jobs>>

\* get_user_by_id, called by a request or by update_user and restore_user --

CallGet ==
    \E p \in ProcIds : \E user_id \in ValidIds : \E include_deleted \in BOOLEAN :
        Begin(p, "get_user_by_id", user_id, include_deleted, NoData,
              "get.cache", "done", DocOf(store, user_id))

\* get_user_by_id returns user to its caller: to the request, or to
\* update_user, which goes on to the lookup of the email or to the write
GetReturns(p, user) ==
    IF procs[p].after = "done"
    THEN Ends(p, TRUE, 0, "", user, <<>>)
    ELSE LET data == procs[p].data
         IN  Goes(p, [procs[p] EXCEPT
                         !.cur = user,
                         !.pc = IF /\ "email" \in data.keys
                                   /\ data.vals.email # user.email
                                THEN "update.email" ELSE "update.write"])

GetCache ==
    \E p \in ProcIds :
        LET cached_user == cache_get(Cache, _get_user_cache_key(procs[p].user_id))
        IN  /\ procs[p].pc = "get.cache"
            /\ IF Truthy(cached_user)
               THEN IF cached_user.kind = "dict"
                    THEN GetReturns(p, from_dict(cached_user.val))
                    ELSE Fails(p, 500, "Error fetching user")
               ELSE IF ~IsValidObjectId(procs[p].user_id)
               THEN Fails(p, 400, "Invalid user ID format")
               ELSE Goes(p, [procs[p] EXCEPT !.pc = "get.find"])
            /\ UNCHANGED <<store, cache, cacheUp, now, last, calls, jobs>>

GetFind ==
    \E p \in ProcIds :
        LET user_id == procs[p].user_id
            query == IF procs[p].include_deleted
                     THEN Dict({"_id"}, [_id |-> ObjectId(user_id)])
                     ELSE Dict({"_id", "isDeleted"},
                               [_id |-> ObjectId(user_id), isDeleted |-> FALSE])
            user == find_one(store, query)
        IN  /\ procs[p].pc = "get.find"
            /\ IF user = None
               THEN Fails(p, 404, "User not found")
               ELSE Goes(p, [procs[p] EXCEPT !.pc = "get.set", !.cur = user])
            /\ UNCHANGED <<store, cache, cacheUp, now, last, calls, jobs>>

GetSet ==
    \E p \in ProcIds :
        LET user == procs[p].cur
            user_dict == [user EXCEPT !._id = str(@)]
        IN  /\ procs[p].pc = "get.set"
            /\ cache' = cache_set(Cache, _get_user_cache_key(procs[p].user_id),
                                  [kind |-> "dict", val |-> user_dict]).data
            /\ GetReturns(p, from_dict(user))
            /\ UNCHANGED <<store, cacheUp, now, last, calls, jobs>>

\* get_all_users ------------------------------------------------------------

CallGetAll ==
    \E p \in ProcIds : \E include_deleted \in BOOLEAN :
        Begin(p, "get_all_users", "", include_deleted, NoData, "all.cache",
              "done", [list |-> Listed(store, include_deleted)])

AllCache ==
    \E p \in ProcIds :
        LET cached_users ==
                cache_get(Cache, _get_all_users_cache_key(procs[p].include_deleted))
        IN  /\ procs[p].pc = "all.cache"
            /\ IF Truthy(cached_users)
               THEN IF cached_users.kind = "list"
                    THEN Ends(p, TRUE, 0, "", None,
                              [i \in 1..Len(cached_users.val) |->
                                  from_dict(cached_users.val[i])])
                    ELSE Fails(p, 500, "Error fetching users")
               ELSE Goes(p, [procs[p] EXCEPT !.pc = "all.find"])
            /\ UNCHANGED <<store, cache, cacheUp, now, last, calls, jobs>>

AllFind ==
    \E p \in ProcIds :
        LET query == IF procs[p].include_deleted
                     THEN Dict({}, [isDeleted |-> FALSE])
                     ELSE Dict({"isDeleted"}, [isDeleted |-> FALSE])
        IN  /\ procs[p].pc = "all.find"
            /\ Goes(p, [procs[p] EXCEPT !.pc = "all.set",
                                        !.cur = [list |-> find(store, query)]])
            /\ UNCHANGED <<store, cache, cacheUp, now, last, calls, jobs>>

AllSet ==
    \E p \in ProcIds :
        LET users == procs[p].cur.list
            users_for_cache == [i \in 1..Len(users) |->
                                   [users[i] EXCEPT !._id = str(@)]]
        IN  /\ procs[p].pc = "all.set"
            /\ cache' = cache_set(Cache,
                                  _get_all_users_cache_key(procs[p].include_deleted),
                                  [kind |-> "list", val |-> users_for_cache]).data
            /\ Ends(p, TRUE, 0, "", None,
                    [i \in 1..Len(users) |-> from_dict(users[i])])
            /\ UNCHANGED <<store, cacheUp, now, last, calls, jobs>>

\* update_user --------------------------------------------------------------

\* validate_user_data, then the call of get_user_by_id(user_id)
CallUpdate ==
    \E p \in ProcIds : \E user_id \in ValidIds : \E data \in ConcUpdateData :
        /\ validate_user_data(data, TRUE) = ""
        /\ Begin(p, "update_user", user_id, FALSE, data, "get.cache",
                 "update", None)

UpdateEmail ==
    \E p \in ProcIds :
        LET data == procs[p].data
        IN  /\ procs[p].pc = "update.email"
            /\ IF find_one(store, Dict({"email", "_id_ne", "isDeleted"},
                                       [email |-> data.vals.email,
                                        _id_ne |-> ObjectId(procs[p].user_id),
                                        isDeleted |-> FALSE])) # None
               THEN Fails(p, 400, "Email already exists")
               ELSE Goes(p, [procs[p] EXCEPT !.pc = "update.write"])
            /\ UNCHANGED <<store, cache, cacheUp, now, last, calls, jobs>>

\* variant: the filter of the write names the id only
UpdateWriteStore_any_flag(st, user_id, user_data, t) ==
    update_one(st, Dict({"_id"}, [_id |-> ObjectId(user_id)]),
               [keys |-> user_data.keys \cup {"updated_at"},
                vals |-> [user_data.vals EXCEPT !.updated_at = datetime(t)]], t)

\* update_one({"_id": ObjectId(user_id), "isDeleted": False}, {"$set": user_data})
UpdateWriteStore(st, user_id, user_data, t) ==
    update_one(st, Dict({"_id", "isDeleted"},
                        [_id |-> ObjectId(user_id), isDeleted |-> FALSE]),
               [keys |-> user_data.keys \cup {"updated_at"},
                vals |-> [user_data.vals EXCEPT !.updated_at = datetime(t)]], t)

\* the write of a method, stamped with a reading of the clock: on zero
\* modified documents the method raises, else it goes on to invalidate the cache
Writes(p, result, message) ==
    IF result.modified_count = 0
    THEN Fails(p, 400, message) /\ UNCHANGED store
    ELSE /\ store' = result.store
         /\ Goes(p, [procs[p] EXCEPT !.pc = "invalidate.key"])

UpdateWrite ==
    \E p \in ProcIds : \E t \in Times(now) :
        /\ procs[p].pc = "update.write"
        /\ now' = t
        /\ Writes(p, UpdateWriteStore(store, procs[p].user_id, procs[p].data, t),
                  "Failed to update user")
        /\ UNCHANGED <<cache, cacheUp, last, calls, jobs>>

\* _invalidate_user_cache: the delete of the per-id key, then of the lists
InvalidateKey ==
    \E p \in ProcIds :
        /\ procs[p].pc = "invalidate.key"
        /\ cache' = cache_delete(Cache, _get_user_cache_key(procs[p].user_id)).data
        /\ Goes(p, [procs[p] EXCEPT !.pc = "invalidate.lists"])
        /\ UNCHANGED <<store, cacheUp, now, last, calls, jobs>>

\* after it delete_user returns; update_user and restore_user read the
\* record again
InvalidateLists ==
    \E p \in ProcIds :
        /\ procs[p].pc = "invalidate.lists"
        /\ cache' = delete_pattern(Cache, CACHE_PREFIX \o "all:").data
        /\ IF procs[p].op = "delete_user"
           THEN Ends(p, TRUE, 0, "", None, <<>>)
           ELSE Goes(p, [procs[p] EXCEPT
                            !.pc = "get.cache", !.after = "done",
                            !.include_deleted = (procs[p].op = "restore_user")])
        /\ UNCHANGED <<store, cacheUp, now, last, calls, jobs>>

\* delete_user and restore_user ---------------------------------------------

CallDelete ==
    \E p \in ProcIds : \E user_id \in ValidIds :
        Begin(p, "delete_user", user_id, FALSE, NoData, "delete.find", "",
              DocOf(store, user_id))

DeleteFind ==
    \E p \in ProcIds :
        LET user == find_one(store, Dict({"_id"},
                                         [_id |-> ObjectId(procs[p].user_id)]))
        IN  /\ procs[p].pc = "delete.find"
            /\ IF user = None
               THEN Fails(p, 404, "User with this ID does not exist")
               ELSE IF user.isDeleted
               THEN Fails(p, 400, "User is already deleted")
               ELSE Goes(p, [procs[p] EXCEPT !.pc = "delete.write"])
            /\ UNCHANGED <<store, cache, cacheUp, now, last, calls, jobs>>

\* variant: the filter of the write names the id only
FlagWriteStore_any_flag(st, user_id, flag, t) ==
    LET hit == find_one(st, Dict({"_id"}, [_id |-> ObjectId(user_id)]))
        result == update_one(st, Dict({"_id"}, [_id |-> ObjectId(user_id)]),
                             Dict({"isDeleted", "updated_at"},
                                  [isDeleted |-> flag, updated_at |-> datetime(t)]),
                             t)
    IN  [store |-> result.store,
         modified_count |-> IF hit = None THEN 0 ELSE 1]

\* update_one({"_id": ..., "isDeleted": not flag},
\*            {"$set": {"isDeleted": flag, "updated_at": utcnow()}})
FlagWriteStore(st, user_id, flag, t) ==
    update_one(st, Dict({"_id", "isDeleted"},
                        [_id |-> ObjectId(user_id), isDeleted |-> ~flag]),
               Dict({"isDeleted", "updated_at"},
                    [isDeleted |-> flag, updated_at |-> datetime(t)]), t)

DeleteWrite ==
    \E p \in ProcIds : \E t \in Times(now) :
        /\ procs[p].pc = "delete.write"
        /\ now' = t
        /\ Writes(p, FlagWriteStore(store, procs[p].user_id, TRUE, t),
                  "Failed to delete user")
        /\ UNCHANGED <<cache, cacheUp, last, calls, jobs>>

CallRestore ==
    \E p \in ProcIds : \E user_id \in ValidIds :
        Begin(p, "restore_user", user_id, FALSE, NoData, "restore.find", "",
              DocOf(store, user_id))

RestoreFind ==
    \E p \in ProcIds :
        LET user == find_one(store, Dict({"_id"},
                                         [_id |-> ObjectId(procs[p].user_id)]))
        IN  /\ procs[p].pc = "restore.find"
            /\ IF user = None
               THEN Fails(p, 404, "User with this ID does not exist")
               ELSE IF ~user.isDeleted
               THEN Fails(p, 400, "User is not deleted")
               ELSE Goes(p, [procs[p] EXCEPT !.pc = "restore.write"])
            /\ UNCHANGED <<store, cache, cacheUp, now, last, calls, jobs>>

RestoreWrite ==
    \E p \in ProcIds : \E t \in Times(now) :
        /\ procs[p].pc = "restore.write"
        /\ now' = t
        /\ Writes(p, FlagWriteStore(store, procs[p].user_id, FALSE, t),
                  "Failed to restore user")
        /\ UNCHANGED <<cache, cacheUp, last, calls, jobs>>

ConcNext ==
    \/ CallCreate \/ CreateCheck \/ CreateInsert \/ CreateInvalidate
    \/ CallGet \/ GetCache \/ GetFind \/ GetSet
    \/ CallGetAll \/ AllCache \/ AllFind \/ AllSet
    \/ CallUpdate \/ UpdateEmail \/ UpdateWrite
    \/ InvalidateKey \/ InvalidateLists
    \/ CallDelete \/ DeleteFind \/ DeleteWrite
    \/ CallRestore \/ RestoreFind \/ RestoreWrite

ConcSpec == ConcInit /\ [][ConcNext]_vars

\* C22: a create_user that has passed the lookup of its email inserts its
\* record whatever the store holds by then, so that two calls that both
\* passed the lookup before either inserted leave two non-deleted records
\* with one email.
C22_InsertAfterCheck ==
    [][\A p \in ProcIds :
          (procs[p].pc = "create.insert" /\ procs'[p].pc = "create.invalidate")
              => /\ Len(store') = Len(store) + 1
                 /\ store'[Len(store')].email = procs[p].data.vals.email
                 /\ ~store'[Len(store')].isDeleted]_vars

\* two create_user calls passed the lookup on the same store and both have
\* returned: two non-deleted records share the email
C22_Witness ==
    /\ \A p \in ProcIds : /\ procs[p].op = "create_user"
                          /\ procs[p].pc = "done"
                          /\ procs[p].ok
                          /\ procs[p].checked = 0
    /\ Len(store) = 2
    /\ store[1].email = store[2].email
    /\ ~store[1].isDeleted /\ ~store[2].isDeleted

\* C23: a read that runs while no writer is in flight, every earlier
\* writer having finished its cache invalidation, returns what the store
\* holds and not a value from before the earlier writes.
C23_NoStaleAfterInvalidation ==
    \A p \in ProcIds :
        (procs[p].pc = "done" /\ procs[p].ok /\ procs[p].clean)
            => /\ procs[p].op = "get_user_by_id"
                    => /\ procs[p].snap # None
                       /\ procs[p].user = from_dict(procs[p].snap)
               /\ procs[p].op = "get_all_users"
                    => procs[p].users = procs[p].snap.list

----------------------------------------------------------------------------
(* Properties of the user service: the life of a record *)

\* C24: an update_user, whatever body it accepts, leaves the isDeleted flag
\* and the id of every stored record as they were; the flag changes by
\* delete_user and restore_user only.
C24_UpdateKeepsFlagAndId ==
    [][(calls' # calls /\ last'.op = "update_user")
          => /\ Len(store') = Len(store)
             /\ \A i \in 1..Len(store) :
                   /\ store'[i].isDeleted = store[i].isDeleted
                   /\ store'[i]._id = store[i]._id]_vars

\* C25: no call removes a record from the store: the stored ids only grow,
\* and every record keeps its id, also through delete and restore.
C25_NoRecordRemoved ==
    [][/\ Len(store') >= Len(store)
       /\ \A i \in 1..Len(store) : store'[i]._id = store[i]._id]_vars

\* a record has been deleted and restored, and is stored under its id
C25_Witness ==
    /\ last.op = "restore_user"
    /\ last.ok
    /\ DocOf(store, last.user_id) # None
    /\ ~DocOf(store, last.user_id).isDeleted
    /\ last.user._id = PyStr(last.user_id)

\* update_user gets as far as its store write: the body is valid, the
\* record of the id was found and the email is not taken by another record
ReachesWrite(st, ca, t, user_id, user_data) ==
    LET current == get_user_by_id(st, ca, t, user_id, FALSE)
    IN  /\ validate_user_data(user_data, TRUE) = ""
        /\ current.ok
        /\ ~ /\ "email" \in user_data.keys
             /\ user_data.vals.email # current.user.email
             /\ find_one(st, Dict({"email", "_id_ne", "isDeleted"},
                                   [email |-> user_data.vals.email,
                                    _id_ne |-> ObjectId(user_id),
                                    isDeleted |-> FALSE])) # None

\* C26: update_user fails with 400 "Failed to update user" exactly when its
\* update_one on {_id, isDeleted: false} reports no modified document; the
\* store then is as before, the list entries of the cache and the per-id
\* entry are still there, and no record is returned.
C26_UpdateFailed ==
    \A user_id \in RequestIds : \A data \in UserData :
    \A t1 \in Times(now) : \A t2 \in Times(t1) :
        LET r == update_user(store, Cache, now, user_id, data, t1, t2)
            current == get_user_by_id(store, Cache, now, user_id, FALSE)
            key == _get_user_cache_key(user_id)
            failed == ~r.ok /\ r.status_code = 400
                            /\ r.message = "Failed to update user"
        IN  /\ failed <=>
                 /\ ReachesWrite(store, Cache, now, user_id, data)
                 /\ update_one(store,
                               Dict({"_id", "isDeleted"},
                                    [_id |-> ObjectId(user_id),
                                     isDeleted |-> FALSE]),
                               [keys |-> data.keys \cup {"updated_at"},
                                vals |-> [data.vals EXCEPT
                                             !.updated_at = datetime(t1)]],
                               t2).modified_count = 0
            /\ failed =>
                 /\ r.store = store
                 /\ r.user = None
                 /\ \A b \in BOOLEAN :
                       r.cache.data[_get_all_users_cache_key(b)]
                           = cache[_get_all_users_cache_key(b)]
                 /\ r.cache.data[key] = current.cache.data[key]
                 /\ cacheUp => r.cache.data[key] # None

\* an update has failed on its store write with the record of the id and a
\* list still in the cache
C26_Witness ==
    /\ last.op = "update_user"
    /\ ~last.ok
    /\ last.message = "Failed to update user"
    /\ cache[_get_user_cache_key(last.user_id)] # None
    /\ \E b \in BOOLEAN : cache[_get_all_users_cache_key(b)] # None

----------------------------------------------------------------------------
(* The user service next to a writer that goes to the collection directly  *)
(* (db.update_one, db.insert_one), as the caching tests do; its writes     *)
(* count as calls.                                                         *)

\* db.update_one({"_id": ...}, {"$set": {"username": ...}})
DirectUpdate ==
    \E i \in 1..Len(store) : \E username \in Usernames : \E t \in Times(now) :
        /\ calls < MaxCalls
        /\ calls' = calls + 1
        /\ store' = update_one(store, Dict({"_id"}, [_id |-> store[i]._id]),
                               Dict({"username"},
                                    [username |-> username,
                                     updated_at |-> datetime(t)]), t).store
        /\ store' # store
        /\ now' = t
        /\ UNCHANGED <<cache, cacheUp, last, jobs, procs>>

\* db.insert_one of a document that no create_user made
DirectInsert ==
    \E username \in Usernames : \E email \in Emails : \E t \in Times(now) :
        /\ Len(store) < MaxUsers
        /\ calls < MaxCalls
        /\ calls' = calls + 1
        /\ store' = insert_one(store,
                               [_id |-> ObjectId(IdPool[Len(store) + 1]),
                                username |-> username, email |-> email,
                                created_at |-> datetime(t),
                                updated_at |-> datetime(t),
                                isDeleted |-> FALSE], t).store
        /\ now' = t
        /\ UNCHANGED <<cache, cacheUp, last, jobs, procs>>

DirectNext ==
    \/ CreateUser
    \/ GetAllUsers
    \/ GetUserById
    \/ UpdateUser
    \/ DeleteUser
    \/ RestoreUser
    \/ Expire
    \/ DirectUpdate
    \/ DirectInsert

DirectSpec == Init /\ [][DirectNext]_vars

\* C27: while the per-id entry of an id is in the cache, get_user_by_id
\* returns the cached record whatever the store holds, and leaves store and
\* cache alone; while a list entry is in the cache, get_all_users returns
\* the cached list whatever the store holds.
C27_HitNeverAsksStore ==
    /\ \A user_id \in RequestIds : \A include_deleted \in BOOLEAN :
          LET cached == cache_get(Cache, _get_user_cache_key(user_id))
              r == get_user_by_id(store, Cache, now, user_id, include_deleted)
              e == get_user_by_id(<<>>, Cache, now, user_id, include_deleted)
          IN  (Truthy(cached) /\ cached.kind = "dict")
                 => /\ r.ok /\ e.ok
                    /\ r.user = from_dict(cached.val)
                    /\ e.user = r.user
                    /\ r.store = store
                    /\ r.cache = Cache
    /\ \A include_deleted \in BOOLEAN :
          LET cached == cache_get(Cache, _get_all_users_cache_key(include_deleted))
              r == get_all_users(store, Cache, now, include_deleted)
              e == get_all_users(<<>>, Cache, now, include_deleted)
          IN  Truthy(cached)
                 => /\ r.ok /\ e.ok
                    /\ r.users = [i \in 1..Len(cached.val) |->
                                     from_dict(cached.val[i])]
                    /\ e.users = r.users
                    /\ r.store = store
                    /\ r.cache = Cache

\* get_user_by_id has just returned, from the cache, a username the store
\* no longer holds
C27_Witness ==
    /\ last.op = "get_user_by_id"
    /\ last.ok
    /\ last.was_cached
    /\ DocOf(store, last.user_id) # None
    /\ last.user.username # DocOf(store, last.user_id).username

----------------------------------------------------------------------------
(* Properties of the user service under concurrent requests, continued *)

\* the calls that began with the call of thread p or after it
Since(p) == {q \in ProcIds : procs[q].started >= procs[p].started}

\* the call of thread p began with no writer in flight on a record whose
\* isDeleted was ~flag, and it and every call begun since, at least one,
\* are calls of op on that record that have ended
SameCalls(p, op, flag) ==
    /\ procs[p].op = op
    /\ procs[p].quiet
    /\ procs[p].snap # None
    /\ procs[p].snap.isDeleted = ~flag
    /\ Cardinality(Since(p)) >= 2
    /\ Cardinality(Since(p)) = calls - procs[p].started + 1
    /\ \A q \in Since(p) : /\ procs[q].op = op
                           /\ procs[q].user_id = procs[p].user_id
                           /\ procs[q].pc = "done"

\* C28: of the delete_user calls that interleave on one active record
\* exactly one returns and the others raise, and the record is deleted;
\* likewise one of the restore_user calls that interleave on one deleted
\* record returns, and the record is active.
C28_OneTransitionPerRace ==
    \A p \in ProcIds :
        /\ SameCalls(p, "delete_user", TRUE)
              => /\ Cardinality({q \in Since(p) : procs[q].ok}) = 1
                 /\ DocOf(store, procs[p].user_id).isDeleted
        /\ SameCalls(p, "restore_user", FALSE)
              => /\ Cardinality({q \in Since(p) : procs[q].ok}) = 1
                 /\ ~DocOf(store, procs[p].user_id).isDeleted

\* two delete_user calls both found the record active, one wrote and the
\* write of the other found nothing to modify
C28_Witness ==
    \E p \in ProcIds :
        /\ SameCalls(p, "delete_user", TRUE)
        /\ \E q \in Since(p) : /\ ~procs[q].ok
                               /\ procs[q].message = "Failed to delete user"

\* C29: no step changes the username or the email of a record whose stored
\* isDeleted is true; an update_user whose write comes when the record is
\* deleted modifies nothing and raises.
C29_DeletedNotUpdated ==
    [][/\ \A i \in 1..Len(store) :
             store[i].isDeleted
                => /\ store'[i].username = store[i].username
                   /\ store'[i].email = store[i].email
       /\ \A p \in ProcIds :
             (/\ procs[p].pc = "update.write"
              /\ procs'[p].pc # "update.write"
              /\ DocOf(store, procs[p].user_id).isDeleted)
                => /\ store' = store
                   /\ procs'[p].pc = "done"
                   /\ ~procs'[p].ok
                   /\ procs'[p].message = "Failed to update user"]_vars

\* an update_user that found its record has raised on its write, the record
\* having been deleted in between or being served by the cache
C29_Witness ==
    \E p \in ProcIds :
        /\ procs[p].op = "update_user"
        /\ procs[p].pc = "done"
        /\ procs[p].message = "Failed to update user"
        /\ DocOf(store, procs[p].user_id).isDeleted
        /\ DocOf(store, procs[p].user_id).email # EmailB

----------------------------------------------------------------------------
(* Properties of the user service: what the cache can decide *)

\* a record the cache could hold for the id that the store does not hold:
\* the stored one with the other isDeleted, or one of an id not stored
StaleRecord(user_id) ==
    LET doc == IF IsValidObjectId(user_id) THEN DocOf(store, user_id) ELSE None
    IN  IF doc = None
        THEN [SampleDoc EXCEPT !._id = PyStr(user_id)]
        ELSE [doc EXCEPT !._id = str(@), !.isDeleted = ~@]

\* working caches with other contents than the cache of the state: nothing
\* cached, and a stale record under every per-id key with a stale list under
\* the list keys
OtherCaches ==
    {[up |-> TRUE, data |-> [k \in CacheKeys |-> None]],
     [up |-> TRUE,
      data |-> [k \in CacheKeys |->
                  IF \E b \in BOOLEAN : k = _get_all_users_cache_key(b)
                  THEN _serialize([kind |-> "list",
                                   val |-> <<StaleRecord(IdPool[1])>>])
                  ELSE _serialize([kind |-> "dict",
                                   val |-> StaleRecord(
                                       CHOOSE id \in RequestIds :
                                           k = _get_user_cache_key(id))])]]}

\* same success or error, same record returned, same store
SameVerdict(r, q) ==
    /\ r.ok = q.ok
    /\ r.status_code = q.status_code
    /\ r.message = q.message
    /\ r.user = q.user
    /\ r.store = q.store

\* C30: with a working cache, create_user, delete_user and restore_user end
\* the same way and leave the same store whatever the cache holds.
C30_CacheDecidesNothing ==
    cacheUp => \A other \in OtherCaches :
        /\ \A data \in UserData :
           \A t1 \in Times(now) : \A t2 \in Times(t1) : \A t3 \in Times(t2) :
              SameVerdict(create_user(store, Cache, now, data, t1, t2, t3),
                          create_user(store, other, now, data, t1, t2, t3))
        /\ \A user_id \in RequestIds :
           \A t1 \in Times(now) : \A t2 \in Times(t1) :
              /\ SameVerdict(delete_user(store, Cache, now, user_id, t1, t2),
                             delete_user(store, other, now, user_id, t1, t2))
              /\ SameVerdict(restore_user(store, Cache, now, user_id, t1, t2),
                             restore_user(store, other, now, user_id, t1, t2))

\* a delete_user has returned for a record that was in the cache
C30_Witness ==
    /\ cacheUp
    /\ last.op = "delete_user"
    /\ last.ok
    /\ last.was_cached
    /\ cache[_get_user_cache_key(last.user_id)] = None
    /\ DocOf(store, last.user_id).isDeleted

====
